---- MODULE Spec2Model ----
(***************************************************************************)
(* Entity reconciler of sec-filings-bu-affiliation: the roster tables      *)
(* (Alumni, Name, Degree, Companies, Employment_History, Filings) and the  *)
(* functions of src/src/sec_filings/database.py that insert into and       *)
(* update them, driven by process_person_matches of src/src/test_fakes.py; *)
(* the reconciliation of the claims of one document and the loop over the  *)
(* documents of a batch (reconcile_person_matches and __main__ of          *)
(* src/src/test_fakes.py); the deduplicator of                             *)
(* src/src/sec_filings/affiliation_search.py; and the document cache of    *)
(* src/src/sec_filings/cache.py.                                           *)
(*                                                                         *)
(* Representation.  A nullable value (Python None, SQL NULL) is a sequence *)
(* of length at most one: NULL is <<>>, a present value v is <<v>>.  A     *)
(* Python str is the sequence of its characters, each a one-character      *)
(* string, so str.lower() and + act on characters.  A person's full name   *)
(* is the sequence of its whitespace-separated words.  A table is the      *)
(* sequence of its rows in insertion order; a SERIAL id is the row index.  *)
(***************************************************************************)
EXTENDS Integers, Sequences, FiniteSets, TLC

VARIABLES
    db,       \* the roster tables
    prev,     \* the roster tables before the last call
    last,     \* the last call: its arguments and what it returned
    nops,     \* the number of calls so far
    cache,    \* the rows of the cache's filings table
    now,      \* the clock, int(time.time())
    written,  \* history: for each id the content and time of the last set
              \* since the last clear_all
    run       \* the loop over the documents of a batch: running or raised

vars == <<db, prev, last, nops, cache, now, written, run>>

\* Number of calls of the database functions in one run.
MaxOps == 3

\* Number of claims process_person_matches handles in one run.
MaxClaims == 2

---------------------------------------------------------------------------
(* Nullable values *)

NULL == <<>>
Some(v) == <<v>>
Val(x) == x[1]

\* SQL COALESCE(a, b): a unless it is NULL.
COALESCE(a, b) == IF a # NULL THEN a ELSE b

\* abs() of Python.
abs(n) == IF n < 0 THEN -n ELSE n

---------------------------------------------------------------------------
(* Strings *)

\* str.lower() on one character.
LowerChar(c) ==
    CASE c = "A" -> "a" [] c = "B" -> "b" [] c = "C" -> "c" [] c = "D" -> "d"
      [] c = "E" -> "e" [] c = "F" -> "f" [] c = "G" -> "g" [] c = "H" -> "h"
      [] c = "I" -> "i" [] c = "J" -> "j" [] c = "K" -> "k" [] c = "L" -> "l"
      [] c = "M" -> "m" [] c = "N" -> "n" [] c = "O" -> "o" [] c = "P" -> "p"
      [] c = "Q" -> "q" [] c = "R" -> "r" [] c = "S" -> "s" [] c = "T" -> "t"
      [] c = "U" -> "u" [] c = "V" -> "v" [] c = "W" -> "w" [] c = "X" -> "x"
      [] c = "Y" -> "y" [] c = "Z" -> "z" [] OTHER -> c

\* str.lower().
Lower(s) == [i \in 1..Len(s) |-> LowerChar(s[i])]

\* The full name that never matches a roster entry.
Unknown == << "Unknown" >>

---------------------------------------------------------------------------
(* Relationship vocabulary *)

accepted ==
    { <<"s","t","u","d","e","n","t">>,
      <<"p","r","o","f","e","s","s","o","r">>,
      <<"a","d","m","i","n">>,
      <<"a","d","v","i","s","o","r">>,
      <<"b","o","a","r","d","_","o","f","_","t","r","u","s","t","e","e","s">>,
      <<"d","o","n","o","r">>,
      <<"r","e","s","e","a","r","c","h","e","r">>,
      <<"b","u","s","i","n","e","s","s">>,
      <<"t","r","a","n","s","i","t","i","v","e">> }

\* clean_relationship without the lower-casing: only exact spellings pass.
clean_relationship_case_sensitive(relationship) ==
    LET r == relationship
    IN  IF r # NULL /\ Val(r) \in accepted THEN r
        ELSE IF r = Some(<<"a","l","u","m","n","i">>)
                \/ r = Some(<<"a","l","u","m","n","u","s">>)
             THEN Some(<<"s","t","u","d","e","n","t">>)
             ELSE NULL

\* clean_relationship: lower-case a non-empty value, keep an accepted one,
\* turn alumni/alumnus into student, and return None for anything else.
clean_relationship(relationship) ==
    LET r == IF relationship # NULL /\ Val(relationship) # <<>>
             THEN Some(Lower(Val(relationship)))
             ELSE relationship
    IN  IF r # NULL /\ Val(r) \in accepted THEN r
        ELSE IF r = Some(<<"a","l","u","m","n","i">>)
                \/ r = Some(<<"a","l","u","m","n","u","s">>)
             THEN Some(<<"s","t","u","d","e","n","t">>)
             ELSE NULL

---------------------------------------------------------------------------
(* The database *)

\* The tables after init_schema: all empty.
EmptyDb ==
    [ alumni     |-> <<>>,
      names      |-> <<>>,
      degrees    |-> <<>>,
      companies  |-> <<>>,
      employment |-> <<>>,
      filings    |-> <<>> ]

\* A function's outcome: the database it leaves and the value it returns.
Out(d, r) == [db |-> d, ret |-> r]

---------------------------------------------------------------------------
(* Alumni and Name *)

\* search_buid: a placeholder that finds nothing.
search_buid(alumni_name) == NULL

\* alumni_match without the test for "Unknown".
alumni_match_any_name(d, full_name) ==
    IF full_name = NULL THEN {}
    ELSE { d.names[i].alumni_id : i \in
             { j \in 1..Len(d.names) :
                 /\ d.names[j].full_name = full_name
                 /\ d.names[j].alumni_id \in 1..Len(d.alumni) } }

\* alumni_match: the ids of the Alumni rows joined to a Name row with this
\* full name; "Unknown" and a missing name match nothing.
alumni_match(d, full_name) ==
    IF full_name = Some(Unknown) \/ full_name = NULL THEN {}
    ELSE { d.names[i].alumni_id : i \in
             { j \in 1..Len(d.names) :
                 /\ d.names[j].full_name = full_name
                 /\ d.names[j].alumni_id \in 1..Len(d.alumni) } }

\* insert_alumni: a new Alumni row with the claim's year of birth and its
\* cleaned relationship; returns the new id.
insert_alumni(d, alum_return) ==
    LET row == [ buid |-> search_buid(alum_return.name),
                 year_of_birth |-> alum_return.year_of_birth,
                 relationship_to_bu |-> clean_relationship(alum_return.relationship) ]
    IN  Out([d EXCEPT !.alumni = Append(@, row)], Some(Len(d.alumni) + 1))

\* update_alumni with the conflict test off by one: years 2 apart conflict.
update_alumni_conflict_at_2(d, alum_id, alum_return) ==
    LET yob == alum_return.year_of_birth
        existing_yob == d.alumni[alum_id].year_of_birth
        relationship == clean_relationship(alum_return.relationship)
    IN  IF yob # NULL /\ existing_yob # NULL /\ abs(Val(existing_yob) - Val(yob)) >= 2
        THEN insert_alumni(d, alum_return)
        ELSE Out([d EXCEPT !.alumni[alum_id] =
                    [ buid |-> COALESCE(@.buid, search_buid(alum_return.name)),
                      year_of_birth |-> COALESCE(@.year_of_birth, yob),
                      relationship_to_bu |-> COALESCE(@.relationship_to_bu, relationship) ]],
                 NULL)

\* update_alumni that never branches: a conflicting claim is merged too.
update_alumni_no_branch(d, alum_id, alum_return) ==
    Out([d EXCEPT !.alumni[alum_id] =
           [ buid |-> COALESCE(@.buid, search_buid(alum_return.name)),
             year_of_birth |-> COALESCE(@.year_of_birth, alum_return.year_of_birth),
             relationship_to_bu |->
                 COALESCE(@.relationship_to_bu,
                          clean_relationship(alum_return.relationship)) ]],
        NULL)

\* update_alumni with the arguments of COALESCE swapped: the claim's value
\* wins over the stored one.
update_alumni_last_wins(d, alum_id, alum_return) ==
    LET yob == alum_return.year_of_birth
        existing_yob == d.alumni[alum_id].year_of_birth
        relationship == clean_relationship(alum_return.relationship)
    IN  IF yob # NULL /\ existing_yob # NULL /\ abs(Val(existing_yob) - Val(yob)) > 2
        THEN insert_alumni(d, alum_return)
        ELSE Out([d EXCEPT !.alumni[alum_id] =
                    [ buid |-> COALESCE(search_buid(alum_return.name), @.buid),
                      year_of_birth |-> COALESCE(yob, @.year_of_birth),
                      relationship_to_bu |-> COALESCE(relationship, @.relationship_to_bu) ]],
                 NULL)

\* update_alumni: on a year-of-birth conflict (both present, more than 2
\* apart) insert the claim as a new row; otherwise fill the NULL columns of
\* row alum_id.  The merge returns None.
update_alumni(d, alum_id, alum_return) ==
    LET yob == alum_return.year_of_birth
        existing_yob == d.alumni[alum_id].year_of_birth
        relationship == clean_relationship(alum_return.relationship)
    IN  IF yob # NULL /\ existing_yob # NULL /\ abs(Val(existing_yob) - Val(yob)) > 2
        THEN insert_alumni(d, alum_return)
        ELSE Out([d EXCEPT !.alumni[alum_id] =
                    [ buid |-> COALESCE(@.buid, search_buid(alum_return.name)),
                      year_of_birth |-> COALESCE(@.year_of_birth, yob),
                      relationship_to_bu |-> COALESCE(@.relationship_to_bu, relationship) ]],
                 NULL)

\* upsert_alumni: with a match, update the first matching row and return its
\* id; without one, insert.  The query has no ORDER BY, so `first` is any of
\* the matching ids.
upsert_alumni(d, alum_return, first) ==
    IF alumni_match(d, alum_return.name) # {}
    THEN Out(update_alumni(d, first, alum_return).db, Some(first))
    ELSE insert_alumni(d, alum_return)

\* insert_bu_name: a new Name row.
insert_bu_name(d, alum_id, full_name) ==
    Out([d EXCEPT !.names = Append(@, [alumni_id |-> alum_id, full_name |-> full_name])],
        NULL)

\* update_bu_name: set the full name of every Name row of alum_id, only
\* where it is NULL unless forced.
update_bu_name(d, alum_id, full_name, force) ==
    Out([d EXCEPT !.names =
            [i \in 1..Len(@) |->
                IF @[i].alumni_id = alum_id
                THEN [@[i] EXCEPT !.full_name =
                         IF force THEN full_name ELSE COALESCE(@, full_name)]
                ELSE @[i]]],
        NULL)

---------------------------------------------------------------------------
(* Degree *)

\* insert_degree: a new Degree row; returns its id.
insert_degree(d, alumni_id, degree_dict) ==
    LET row == [ alumni_id   |-> alumni_id,
                 school      |-> degree_dict.school,
                 degree_type |-> degree_dict.degree_type,
                 start_year  |-> degree_dict.start_year,
                 end_year    |-> degree_dict.end_year ]
    IN  Out([d EXCEPT !.degrees = Append(@, row)], Some(Len(d.degrees) + 1))

\* The Degree rows of an alumnus (count_query).
degrees_of(d, alumni_id) ==
    { i \in 1..Len(d.degrees) : d.degrees[i].alumni_id = alumni_id }

\* degree_id_query without the count: always the rows of the claim's type.
degree_id_query_by_type(d, alumni_id, degree_type) ==
    { i \in degrees_of(d, alumni_id) :
        degree_type # NULL /\ d.degrees[i].degree_type = degree_type }

\* degree_id_query without the type: always the rows of the alumnus.
degree_id_query_any_type(d, alumni_id, degree_type) == degrees_of(d, alumni_id)

\* The rows degree_id_query of update_degree selects: the only row of an
\* alumnus who has exactly one, otherwise the rows of the alumnus whose
\* degree_type equals the claim's (a NULL type equals nothing).
degree_id_query(d, alumni_id, degree_type) ==
    IF Cardinality(degrees_of(d, alumni_id)) = 1
    THEN degrees_of(d, alumni_id)
    ELSE { i \in degrees_of(d, alumni_id) :
             degree_type # NULL /\ d.degrees[i].degree_type = degree_type }

\* update_degree: insert when the query selects nothing, otherwise fill the
\* NULL columns of the row fetchone() returns (`first`, any selected row).
update_degree(d, alumni_id, degree_dict, first) ==
    IF degree_id_query(d, alumni_id, degree_dict.degree_type) = {}
    THEN Out(insert_degree(d, alumni_id, degree_dict).db, NULL)
    ELSE Out([d EXCEPT !.degrees[first] =
                [ alumni_id   |-> @.alumni_id,
                  school      |-> COALESCE(@.school, degree_dict.school),
                  degree_type |-> COALESCE(@.degree_type, degree_dict.degree_type),
                  start_year  |-> COALESCE(@.start_year, degree_dict.start_year),
                  end_year    |-> COALESCE(@.end_year, degree_dict.end_year) ]],
             NULL)

---------------------------------------------------------------------------
(* Companies *)

\* Length of a CIK that insert_or_get_company stores.
CikLen == 10

\* find_company_by_name: the Companies rows whose name equals company_name,
\* both lower-cased.
find_company_by_name(d, company_name) ==
    { i \in 1..Len(d.companies) :
        Lower(d.companies[i].name) = Lower(company_name) }

\* The least element of a non-empty set of row ids.
MinId(S) == CHOOSE i \in S : \A j \in S : i <= j

\* find_company_by_cik: the id of the first Companies row with this cik, or
\* None.  Companies rows are only ever inserted, so the scan returns them in
\* insertion order.
find_company_by_cik(d, cik) ==
    LET results == { i \in 1..Len(d.companies) : d.companies[i].cik = Some(cik) }
    IN  IF results # {} THEN Some(MinId(results)) ELSE NULL

\* insert_or_get_company: None without a name; the id of the company with
\* this lower-cased name, inserted (with a cik of the right length only) if
\* there is none.
insert_or_get_company(d, company_dict) ==
    IF company_dict.company_name = NULL THEN Out(d, NULL)
    ELSE LET company_name == Lower(Val(company_dict.company_name))
             cik0 == company_dict.company_cik
             company_cik == IF cik0 # NULL /\ Val(cik0) # <<>> /\ Len(Val(cik0)) # CikLen
                            THEN NULL ELSE cik0
             existing == find_company_by_name(d, company_name)
         IN  IF existing # {} THEN Out(d, Some(MinId(existing)))
             ELSE Out([d EXCEPT !.companies =
                          Append(@, [name |-> company_name, cik |-> company_cik])],
                      Some(Len(d.companies) + 1))

---------------------------------------------------------------------------
(* Employment_History *)

\* datetime.now().year at the time of the run.
CurrentYear == 2026

\* A year as the extraction service gives it: an int, or a str.
IntYear(n) == [t |-> "int", n |-> n, s |-> <<>>]
StrYear(s) == [t |-> "str", n |-> 0, s |-> s]

Digits == {"0","1","2","3","4","5","6","7","8","9"}

DigitVal(c) ==
    CASE c = "0" -> 0 [] c = "1" -> 1 [] c = "2" -> 2 [] c = "3" -> 3
      [] c = "4" -> 4 [] c = "5" -> 5 [] c = "6" -> 6 [] c = "7" -> 7
      [] c = "8" -> 8 [] c = "9" -> 9

RECURSIVE DecimalVal(_)
DecimalVal(s) ==
    IF s = <<>> THEN 0
    ELSE 10 * DecimalVal(SubSeq(s, 1, Len(s) - 1)) + DigitVal(s[Len(s)])

\* int(year) under try/except ValueError: an int is itself, a str of
\* decimal digits is its value, any other str gives None.
int_or_none(year) ==
    IF year = NULL THEN NULL
    ELSE IF Val(year).t = "int" THEN Some(Val(year).n)
    ELSE IF Val(year).s # <<>> /\ \A i \in 1..Len(Val(year).s) : Val(year).s[i] \in Digits
         THEN Some(DecimalVal(Val(year).s))
         ELSE NULL

\* clean_employment_years: 'present' as year_end is the current year,
\* 'null' is None, the rest goes through int().
clean_employment_years(year_start, year_end) ==
    LET e1 == IF year_end = Some(StrYear(<<"p","r","e","s","e","n","t">>))
              THEN Some(IntYear(CurrentYear)) ELSE year_end
        e2 == IF e1 = Some(StrYear(<<"n","u","l","l">>)) THEN NULL ELSE e1
        s2 == IF year_start = Some(StrYear(<<"n","u","l","l">>)) THEN NULL ELSE year_start
    IN  [year_start |-> int_or_none(s2), year_end |-> int_or_none(e2)]

\* alumni_worked_at: whether an Employment_History row of the alumnus has
\* this company name, lower-cased.
alumni_worked_at(d, alumni_id, company_name) ==
    IF company_name = NULL THEN FALSE
    ELSE \E i \in 1..Len(d.employment) :
            /\ d.employment[i].alumni_id = alumni_id
            /\ d.employment[i].company_name = Some(Lower(Val(company_name)))

\* The INSERT without its ON CONFLICT clause.
insert_plain(employment, row) == Append(employment, row)

\* INSERT ... ON CONFLICT (alumni_id, company_id) DO NOTHING.
insert_on_conflict_do_nothing(employment, row) ==
    IF \E i \in 1..Len(employment) :
          /\ employment[i].alumni_id = row.alumni_id
          /\ employment[i].company_id = row.company_id
    THEN employment
    ELSE Append(employment, row)

\* insert_employment_history: nothing without a company name; otherwise
\* resolve or create the company and insert the row unless the alumnus
\* already has one for that company.
insert_employment_history(d, alumni_id, employment_dict) ==
    IF employment_dict.company_name = NULL THEN Out(d, NULL)
    ELSE LET years == clean_employment_years(employment_dict.year_start,
                                              employment_dict.year_end)
             company_name == Lower(Val(employment_dict.company_name))
             c == insert_or_get_company(d, [company_name |-> Some(company_name),
                                            company_cik  |-> NULL])
             row == [ alumni_id    |-> alumni_id,
                      company_id   |-> c.ret,
                      company_name |-> Some(company_name),
                      year_start   |-> years.year_start,
                      year_end     |-> years.year_end,
                      location     |-> employment_dict.location,
                      compensation |-> employment_dict.compensation ]
         IN  Out([c.db EXCEPT !.employment = insert_on_conflict_do_nothing(@, row)],
                 NULL)

\* update_employment_history with the arguments of COALESCE swapped: the
\* claim's value wins over the stored one.
update_employment_history_last_wins(d, alumni_id, employment_dict) ==
    IF employment_dict.company_name = NULL THEN Out(d, NULL)
    ELSE LET years == clean_employment_years(employment_dict.year_start,
                                              employment_dict.year_end)
             company_name == Lower(Val(employment_dict.company_name))
             c == insert_or_get_company(d, [company_name |-> Some(company_name),
                                            company_cik  |-> NULL])
         IN  Out([c.db EXCEPT !.employment =
                    [i \in 1..Len(@) |->
                       IF @[i].alumni_id = alumni_id /\ @[i].company_name = Some(company_name)
                       THEN [ alumni_id    |-> @[i].alumni_id,
                              company_id   |-> COALESCE(c.ret, @[i].company_id),
                              company_name |-> COALESCE(Some(company_name), @[i].company_name),
                              year_start   |-> COALESCE(years.year_start, @[i].year_start),
                              year_end     |-> COALESCE(years.year_end, @[i].year_end),
                              location     |-> COALESCE(employment_dict.location, @[i].location),
                              compensation |-> COALESCE(employment_dict.compensation,
                                                        @[i].compensation) ]
                       ELSE @[i]]],
                 NULL)

\* update_employment_history: nothing without a company name; otherwise
\* resolve or create the company and fill the NULL columns of the rows of
\* the alumnus with that lower-cased company name.
update_employment_history(d, alumni_id, employment_dict) ==
    IF employment_dict.company_name = NULL THEN Out(d, NULL)
    ELSE LET years == clean_employment_years(employment_dict.year_start,
                                              employment_dict.year_end)
             company_name == Lower(Val(employment_dict.company_name))
             c == insert_or_get_company(d, [company_name |-> Some(company_name),
                                            company_cik  |-> NULL])
         IN  Out([c.db EXCEPT !.employment =
                    [i \in 1..Len(@) |->
                       IF @[i].alumni_id = alumni_id /\ @[i].company_name = Some(company_name)
                       THEN [ alumni_id    |-> @[i].alumni_id,
                              company_id   |-> COALESCE(@[i].company_id, c.ret),
                              company_name |-> COALESCE(@[i].company_name, Some(company_name)),
                              year_start   |-> COALESCE(@[i].year_start, years.year_start),
                              year_end     |-> COALESCE(@[i].year_end, years.year_end),
                              location     |-> COALESCE(@[i].location, employment_dict.location),
                              compensation |-> COALESCE(@[i].compensation,
                                                        employment_dict.compensation) ]
                       ELSE @[i]]],
                 NULL)

---------------------------------------------------------------------------
(* Filings *)

\* The company id insert_filing and update_filing resolve: by cik when one
\* is given and found, else by name (creating the company) when one is
\* given, else None.
filing_company(d, company_name, company_cik) ==
    LET by_cik == IF company_cik # NULL /\ Val(company_cik) # <<>>
                  THEN find_company_by_cik(d, Val(company_cik)) ELSE NULL
    IN  IF by_cik = NULL /\ company_name # NULL /\ Val(company_name) # <<>>
        THEN insert_or_get_company(d, [company_name |-> Some(Lower(Val(company_name))),
                                       company_cik  |-> NULL])
        ELSE Out(d, by_cik)

\* insert_filing: a new Filings row.
insert_filing(d, alumni_id, file_link, company_name, company_cik, text_extracted, filing_date) ==
    LET c == filing_company(d, company_name, company_cik)
        row == [ alumni_id      |-> alumni_id,
                 link           |-> file_link,
                 company_id     |-> c.ret,
                 date           |-> filing_date,
                 text_extracted |-> text_extracted ]
    IN  Out([c.db EXCEPT !.filings = Append(@, row)], NULL)

\* The Filings rows of (alumni_id, link).
filings_of(d, alumni_id, file_link) ==
    { i \in 1..Len(d.filings) :
        d.filings[i].alumni_id = alumni_id /\ d.filings[i].link = file_link }

\* The concatenation the other way round: the new text first.
concat_text_new_first(existing_text, text_extracted) ==
    IF existing_text # <<>> THEN text_extracted \o <<"\n">> \o existing_text
    ELSE text_extracted

\* The text update_filing stores: the existing text, a newline and the new
\* text, or the new text alone when there is no existing text.
concat_text(existing_text, text_extracted) ==
    IF existing_text # <<>> THEN existing_text \o <<"\n">> \o text_extracted
    ELSE text_extracted

\* The new value of a column update_filing sets with COALESCE(%s, column).
coalesce_filing(new, column) == COALESCE(new, column)

\* update_filing: on every Filings row of (alumni_id, link), set the text to
\* the concatenation with the text of the row fetchone() returns (`first`,
\* any of them) and set company_id and date.
update_filing(d, alumni_id, file_link, company_name, company_cik, text_extracted, filing_date, first) ==
    LET c == filing_company(d, company_name, company_cik)
        existing_text == IF filings_of(d, alumni_id, file_link) # {}
                         THEN d.filings[first].text_extracted ELSE <<>>
        new_text == concat_text(existing_text, text_extracted)
    IN  Out([c.db EXCEPT !.filings =
               [i \in 1..Len(@) |->
                  IF i \in filings_of(d, alumni_id, file_link)
                  THEN [ alumni_id      |-> @[i].alumni_id,
                         link           |-> @[i].link,
                         company_id     |-> coalesce_filing(c.ret, @[i].company_id),
                         date           |-> coalesce_filing(filing_date, @[i].date),
                         text_extracted |-> new_text ]
                  ELSE @[i]]],
            NULL)

---------------------------------------------------------------------------
(* process_person_matches *)

\* What fetchone() or [0] may return from the rows a query selects: any of
\* them (no ORDER BY); 0 stands for "no row".
Picks(S) == IF S = {} THEN {0} ELSE S

\* The databases update_degree may leave.
update_degree_all(d, alumni_id, degree_dict) ==
    { update_degree(d, alumni_id, degree_dict, first).db :
        first \in Picks(degree_id_query(d, alumni_id, degree_dict.degree_type)) }

\* The databases update_filing may leave.
update_filing_all(d, alumni_id, file_link, company_name, company_cik, text_extracted, filing_date) ==
    { update_filing(d, alumni_id, file_link, company_name, company_cik, text_extracted,
                    filing_date, first).db :
        first \in Picks(filings_of(d, alumni_id, file_link)) }

\* The employment loop: update the row of a company the alumnus already
\* worked at, insert otherwise.
RECURSIVE employment_loop(_, _, _)
employment_loop(d, new_id, employment_list) ==
    IF employment_list = <<>> THEN d
    ELSE LET employment_dict == Head(employment_list)
             d1 == IF alumni_worked_at(d, new_id, employment_dict.company_name)
                   THEN update_employment_history(d, new_id, employment_dict).db
                   ELSE insert_employment_history(d, new_id, employment_dict).db
         IN  employment_loop(d1, new_id, Tail(employment_list))

\* The degree loop, from each database of D: degree_function is
\* update_degree when the name was already in the roster, insert_degree
\* otherwise.
RECURSIVE degree_loop(_, _, _, _)
degree_loop(D, new_id, degree_list, existed) ==
    IF degree_list = <<>> THEN D
    ELSE LET degree_dict == Head(degree_list)
             D1 == UNION { IF existed
                           THEN update_degree_all(d, new_id, degree_dict)
                           ELSE { insert_degree(d, new_id, degree_dict).db } : d \in D }
         IN  degree_loop(D1, new_id, Tail(degree_list), existed)

\* The rest of an iteration once upsert_alumni has returned new_id and left
\* d: the name, the employment loop, the degree loop and the filing.
person_records(d, new_id, existed, persons_dict, company_name, company_cik, filing_date, file_link) ==
    UNION { UNION { IF existed
                    THEN update_filing_all(dd, new_id, file_link, company_name, company_cik,
                                           persons_dict.matching_text, filing_date)
                    ELSE { insert_filing(dd, new_id, file_link, company_name, company_cik,
                                         persons_dict.matching_text, filing_date).db }
                    : dd \in degree_loop({e}, new_id, persons_dict.degree_list, existed) }
            : e \in { employment_loop(n, new_id, persons_dict.employment_list) :
                      n \in { IF existed
                              THEN update_bu_name(d, new_id, Some(persons_dict.name), FALSE).db
                              ELSE insert_bu_name(d, new_id, Some(persons_dict.name)).db } } }

\* One iteration of the loop of process_person_matches on persons_dict,
\* with the employment and degree lists the extraction service answers for
\* it: the databases it may leave.
process_person(d, persons_dict, company_name, company_cik, filing_date, file_link) ==
    LET alum_return == [ name          |-> Some(persons_dict.name),
                         year_of_birth |-> persons_dict.year_of_birth,
                         relationship  |-> persons_dict.relationship ]
    IN  UNION { UNION { person_records(a.db, Val(a.ret), existing_alumni # {}, persons_dict,
                                       company_name, company_cik, filing_date, file_link)
                        : a \in { upsert_alumni(d, alum_return, first) :
                                  first \in Picks(existing_alumni) } }
                : existing_alumni \in { alumni_match(d, Some(persons_dict.name)) } }

\* process_person_matches: the loop over person_matches, from each database
\* of D.
RECURSIVE process_person_matches(_, _, _, _, _, _)
process_person_matches(D, person_matches, company_name, company_cik, filing_date, file_link) ==
    IF person_matches = <<>> THEN D
    ELSE process_person_matches(
            UNION { process_person(d, Head(person_matches), company_name, company_cik,
                                   filing_date, file_link) : d \in D },
            Tail(person_matches), company_name, company_cik, filing_date, file_link)

---------------------------------------------------------------------------
(* Inputs *)

JohnSmith == << "John", "Smith" >>

\* Years of birth: 1990 and 1992 are 2 apart, 1990 and 1993 are 3 apart.
YobInputs == { NULL, Some(1990), Some(1992), Some(1993) }

\* Relationships as the extraction service spells them.
RelInputs == { NULL,
               Some(<<"A","l","u","m","n","u","s">>),
               Some(<<"P","r","o","f","e","s","s","o","r">>) }

\* The claims (alum_return) with a name among `names`.
AlumReturns(names) ==
    [ name : names, year_of_birth : YobInputs, relationship : RelInputs ]

---------------------------------------------------------------------------
(* The cache store, the clock and the batch loop before anything ran *)

\* FilingCache.__init__: the default time-to-live, in days and in seconds.
ttl_days == 30
ttl_seconds == ttl_days * 24 * 60 * 60

\* The accession numbers the cache is asked about.
CacheIds == { "0000320193-23-000077", "0000320193-23-000078" }

\* _init_database on a new cache_dir: a filings table without rows; the
\* clock reads some second after the epoch; the batch loop is running.
InitEnv ==
    /\ cache = {}
    /\ now = ttl_seconds
    /\ written = [id \in CacheIds |-> NULL]
    /\ run = "running"

---------------------------------------------------------------------------
(* Calls *)

\* One call, of at most `bound` in a run: the database before it, the call
\* and what it returned.
BoundedCall(bound, record, out) ==
    /\ nops < bound
    /\ nops' = nops + 1
    /\ prev' = db
    /\ db' = out.db
    /\ last' = [record EXCEPT !.ret = out.ret]
    /\ UNCHANGED <<cache, now, written, run>>

Call(record, out) == BoundedCall(MaxOps, record, out)

Init ==
    /\ db = EmptyDb
    /\ prev = EmptyDb
    /\ last = [op |-> "init", ret |-> NULL]
    /\ nops = 0
    /\ InitEnv

AlumniIds == 1..Len(db.alumni)

InsertAlumni ==
    /\ nops < MaxOps
    /\ \E c \in AlumReturns({Some(JohnSmith)}) :
          Call([op |-> "insert_alumni", claim |-> c, ret |-> NULL],
               insert_alumni(db, c))

UpdateAlumni ==
    \E id \in AlumniIds, c \in AlumReturns({Some(JohnSmith)}) :
        Call([op |-> "update_alumni", id |-> id, claim |-> c, ret |-> NULL],
             update_alumni(db, id, c))

UpsertAlumni ==
    /\ nops < MaxOps
    /\ \E c \in AlumReturns({Some(JohnSmith)}) :
          \E first \in IF alumni_match(db, c.name) = {} THEN {0} ELSE alumni_match(db, c.name) :
              Call([op |-> "upsert_alumni", claim |-> c, first |-> first, ret |-> NULL],
                   upsert_alumni(db, c, first))

InsertBuName ==
    \E id \in AlumniIds, n \in {Some(JohnSmith)} :
        Call([op |-> "insert_bu_name", id |-> id, name |-> n, ret |-> NULL],
             insert_bu_name(db, id, n))

NextAlumni == InsertAlumni \/ UpdateAlumni \/ UpsertAlumni \/ InsertBuName

SpecAlumni == Init /\ [][NextAlumni]_vars

---------------------------------------------------------------------------
(* Degree calls *)

\* A roster of two alumni, as two insert_alumni calls leave it.
Roster ==
    insert_alumni(
        insert_alumni(EmptyDb,
                      [ name |-> Some(JohnSmith), year_of_birth |-> Some(1990),
                        relationship |-> Some(<<"s","t","u","d","e","n","t">>) ]).db,
        [ name |-> Some(<<"Jane", "Doe">>), year_of_birth |-> NULL,
          relationship |-> NULL ]).db

InitRoster ==
    /\ db = Roster
    /\ prev = Roster
    /\ last = [op |-> "init", ret |-> NULL]
    /\ nops = 0
    /\ InitEnv

\* Degree claims: each degree type with each of three sets of details.
DegreeDicts ==
    { [ school |-> f.school, degree_type |-> t,
        start_year |-> f.start_year, end_year |-> f.end_year ] :
        t \in { NULL, Some("BA"), Some("MS") },
        f \in { [ school |-> Some("College of Fine Arts"),
                  start_year |-> Some(2015), end_year |-> NULL ],
                [ school |-> Some("School of Law"),
                  start_year |-> Some(2016), end_year |-> Some(2019) ],
                [ school |-> NULL, start_year |-> NULL, end_year |-> Some(2023) ] } }

InsertDegree ==
    \E id \in AlumniIds, g \in DegreeDicts :
        Call([op |-> "insert_degree", id |-> id, degree_dict |-> g, ret |-> NULL],
             insert_degree(db, id, g))

UpdateDegree ==
    \E id \in AlumniIds, g \in DegreeDicts :
        \E first \in Picks(degree_id_query(db, id, g.degree_type)) :
            Call([op |-> "update_degree", id |-> id, degree_dict |-> g, first |-> first,
                  ret |-> NULL],
                 update_degree(db, id, g, first))

NextDegree == InsertDegree \/ UpdateDegree

SpecDegree == InitRoster /\ [][NextDegree]_vars

---------------------------------------------------------------------------
(* Employment calls *)

Acme == <<"A","c","m","e">>

\* Employment claims: no company, one company in two spellings and another
\* company, each with each of three sets of details.
EmploymentDicts ==
    { [ company_name |-> c, year_start |-> f.year_start, year_end |-> f.year_end,
        location |-> f.location, compensation |-> f.compensation ] :
        c \in { NULL, Some(Acme), Some(Lower(Acme)), Some(<<"B","e","t","a">>) },
        f \in { [ year_start |-> Some(IntYear(2010)), year_end |-> Some(IntYear(2012)),
                  location |-> Some("New York"), compensation |-> Some("$50000") ],
                [ year_start |-> NULL,
                  year_end |-> Some(StrYear(<<"p","r","e","s","e","n","t">>)),
                  location |-> NULL, compensation |-> Some("$70000") ],
                [ year_start |-> Some(StrYear(<<"2","0","1","5">>)),
                  year_end |-> Some(StrYear(<<"n","u","l","l">>)),
                  location |-> Some("Boston"), compensation |-> NULL ] } }

InsertEmploymentHistory ==
    \E id \in AlumniIds, e \in EmploymentDicts :
        Call([op |-> "insert_employment_history", id |-> id, employment_dict |-> e,
              ret |-> NULL],
             insert_employment_history(db, id, e))

UpdateEmploymentHistory ==
    \E id \in AlumniIds, e \in EmploymentDicts :
        Call([op |-> "update_employment_history", id |-> id, employment_dict |-> e,
              ret |-> NULL],
             update_employment_history(db, id, e))

NextEmployment == InsertEmploymentHistory \/ UpdateEmploymentHistory

SpecEmployment == InitRoster /\ [][NextEmployment]_vars

---------------------------------------------------------------------------
(* Filing calls *)

UpdateCo == <<"U","p","d","a","t","e","C","o">>

UpdateCoCik == <<"0","0","0","3","3","3","3","3","3","3">>

\* The roster with one company known by its cik, as insert_or_get_company
\* leaves it.
RosterWithCompany ==
    insert_or_get_company(Roster, [ company_name |-> Some(UpdateCo),
                                    company_cik  |-> Some(UpdateCoCik) ]).db

InitFiling ==
    /\ db = RosterWithCompany
    /\ prev = RosterWithCompany
    /\ last = [op |-> "init", ret |-> NULL]
    /\ nops = 0
    /\ InitEnv

\* Sightings: the company, the text and the date a filing call carries.
Sightings ==
    { [ company_name |-> Some(UpdateCo), company_cik |-> Some(UpdateCoCik),
        text_extracted |-> <<"a">>, filing_date |-> Some("2023-04-01") ],
      [ company_name |-> Some(<<"B","e","t","a">>), company_cik |-> NULL,
        text_extracted |-> <<"b">>, filing_date |-> Some("2024-05-02") ],
      [ company_name |-> NULL, company_cik |-> NULL,
        text_extracted |-> <<"c">>, filing_date |-> NULL ],
      [ company_name |-> NULL, company_cik |-> NULL,
        text_extracted |-> <<>>, filing_date |-> NULL ] }

Links == { "L1", "L2" }

InsertFiling ==
    \E id \in AlumniIds, link \in Links, f \in Sightings :
        Call([op |-> "insert_filing", id |-> id, link |-> link, sighting |-> f,
              ret |-> NULL],
             insert_filing(db, id, link, f.company_name, f.company_cik, f.text_extracted,
                           f.filing_date))

UpdateFiling ==
    \E id \in AlumniIds, link \in Links, f \in Sightings :
        \E first \in Picks(filings_of(db, id, link)) :
            Call([op |-> "update_filing", id |-> id, link |-> link, sighting |-> f,
                  first |-> first, ret |-> NULL],
                 update_filing(db, id, link, f.company_name, f.company_cik,
                               f.text_extracted, f.filing_date, first))

NextFiling == InsertFiling \/ UpdateFiling

SpecFiling == InitFiling /\ [][NextFiling]_vars

---------------------------------------------------------------------------
(* The pipeline: process_person_matches on an empty roster *)

\* A filing: its link, and the company, cik and date the index gives for it.
Filing(link) ==
    IF link = "L1"
    THEN [ company_name |-> Some(UpdateCo), company_cik |-> Some(UpdateCoCik),
           filing_date |-> Some("2023-04-01") ]
    ELSE [ company_name |-> Some(<<"B","e","t","a">>),
           company_cik |-> Some(<<"0","0","0","1","1","1","1","1","1","1">>),
           filing_date |-> Some("2024-05-02") ]

\* The claims of the pipeline (persons_dict), each with the answers of the
\* extraction service for its employment history and its degrees.
PersonsDicts ==
    [ name : { JohnSmith, Unknown },
      year_of_birth : { NULL, Some(1990), Some(1993) },
      relationship : { Some(<<"A","l","u","m","n","u","s">>) },
      matching_text : { <<"a">> },
      employment_list :
          { <<>>,
            << [ company_name |-> Some(<<"A","c","m","e"," ","C","o","r","p">>),
                 year_start |-> Some(StrYear(<<"2","0","0","1">>)), year_end |-> NULL,
                 location |-> NULL, compensation |-> NULL ] >> },
      degree_list :
          { <<>>,
            << [ school |-> Some("Questrom School of Business"),
                 degree_type |-> Some("MBA"),
                 start_year |-> NULL, end_year |-> Some(1998) ] >> } ]

\* A call with one claim; a call with a longer list does what the calls
\* with its claims one by one do, as the loop keeps nothing between claims.
ProcessPersonMatches ==
    /\ nops < MaxClaims
    /\ \E p \in PersonsDicts, link \in Links :
        \E d \in process_person_matches({db}, <<p>>, Filing(link).company_name,
                                        Filing(link).company_cik,
                                        Filing(link).filing_date, link) :
            BoundedCall(MaxClaims,
                        [op |-> "process_person_matches", person_matches |-> <<p>>,
                         file_link |-> link, ret |-> NULL],
                        Out(d, NULL))

Next == ProcessPersonMatches

Spec == Init /\ [][Next]_vars

---------------------------------------------------------------------------
(* Properties of the roster: Alumni and Name *)

\* The dependent records of alumnus a.
Dependents(d, a) ==
    { <<"Name", i>> : i \in { j \in 1..Len(d.names) : d.names[j].alumni_id = a } }
    \cup { <<"Degree", i>> : i \in { j \in 1..Len(d.degrees) : d.degrees[j].alumni_id = a } }
    \cup { <<"Employment", i>> :
             i \in { j \in 1..Len(d.employment) : d.employment[j].alumni_id = a } }
    \cup { <<"Filing", i>> : i \in { j \in 1..Len(d.filings) : d.filings[j].alumni_id = a } }

\* The alumni ids the dependent records refer to.
Referenced(d) ==
    { d.names[i].alumni_id : i \in 1..Len(d.names) }
    \cup { d.degrees[i].alumni_id : i \in 1..Len(d.degrees) }
    \cup { d.employment[i].alumni_id : i \in 1..Len(d.employment) }
    \cup { d.filings[i].alumni_id : i \in 1..Len(d.filings) }

\* C1: after process_person_matches has handled any sequence of claims,
\* every AlumniRecord is referenced by at least one NameRecord, DegreeRecord,
\* EmploymentRecord or FilingLink, and every such record references an
\* existing AlumniRecord.
C1_NoOrphans ==
    /\ \A a \in 1..Len(db.alumni) : Dependents(db, a) # {}
    /\ Referenced(db) \subseteq 1..Len(db.alumni)

\* The claim's and the stored year of birth are both present and more than
\* 2 apart.
YobConflict(d, id, claim) ==
    /\ claim.year_of_birth # NULL
    /\ d.alumni[id].year_of_birth # NULL
    /\ \/ Val(claim.year_of_birth) - Val(d.alumni[id].year_of_birth) > 2
       \/ Val(d.alumni[id].year_of_birth) - Val(claim.year_of_birth) > 2

\* The last call was upsert_alumni with a claim whose name matched.
UpsertMatched ==
    /\ last.op = "upsert_alumni"
    /\ alumni_match(prev, last.claim.name) # {}

\* C2: when upsert_alumni receives a claim whose name matches an existing
\* AlumniRecord and a birth year is absent or the two differ by at most 2,
\* no AlumniRecord is created: the roster holds the records it held, the
\* name matches the records it matched (one if it was one), and the
\* returned id is the id of the matched record.
C2_MergeCreatesNoRecord ==
    (UpsertMatched /\ ~YobConflict(prev, last.first, last.claim)) =>
        /\ Len(db.alumni) = Len(prev.alumni)
        /\ alumni_match(db, last.claim.name) = alumni_match(prev, last.claim.name)
        /\ last.ret # NULL
        /\ Val(last.ret) \in alumni_match(prev, last.claim.name)
        /\ Val(last.ret) = last.first

\* A claim 2 years off the one record of its name was merged into it.
C2_Witness ==
    /\ UpsertMatched
    /\ Cardinality(alumni_match(prev, last.claim.name)) = 1
    /\ last.claim.year_of_birth = Some(1992)
    /\ prev.alumni[last.first].year_of_birth = Some(1990)
    /\ Len(db.alumni) = Len(prev.alumni)
    /\ last.ret = Some(last.first)

\* The last call branched or merged on alumnus TouchedId: update_alumni on
\* its id, or upsert_alumni on the matched id.
TouchesAlumnus ==
    \/ last.op = "update_alumni"
    \/ UpsertMatched

TouchedId == IF last.op = "update_alumni" THEN last.id ELSE last.first

\* C3: when a claim matches an existing AlumniRecord and both birth years
\* are present and differ by more than 2, a new AlumniRecord is inserted
\* with the claim's birth year and normalized relationship, and every
\* AlumniRecord there was, the matched one included, is unchanged.
C3_ConflictBranches ==
    (TouchesAlumnus /\ YobConflict(prev, TouchedId, last.claim)) =>
        /\ Len(db.alumni) = Len(prev.alumni) + 1
        /\ db.alumni[Len(db.alumni)].year_of_birth = last.claim.year_of_birth
        /\ db.alumni[Len(db.alumni)].relationship_to_bu
              = clean_relationship(last.claim.relationship)
        /\ db.alumni[Len(db.alumni)].relationship_to_bu
              \in { NULL } \cup { Some(r) : r \in accepted }
        /\ \A i \in 1..Len(prev.alumni) : db.alumni[i] = prev.alumni[i]

\* An upsert of a claim born 1993 under the name of a record born 1990 left
\* two records, the new one a professor born 1993.
C3_Witness ==
    /\ UpsertMatched
    /\ prev.alumni[last.first].year_of_birth = Some(1990)
    /\ last.claim.year_of_birth = Some(1993)
    /\ Len(prev.alumni) = 1
    /\ Len(db.alumni) = 2
    /\ db.alumni[2].year_of_birth = Some(1993)
    /\ db.alumni[2].relationship_to_bu = Some(<<"p","r","o","f","e","s","s","o","r">>)
    /\ db.alumni[1] = prev.alumni[1]

\* C4: over insert_alumni, update_alumni and upsert_alumni calls no record
\* is removed, a birth year or relationship that is non-null never changes,
\* and a merge sets each of the two fields, separately, to the claim's
\* value exactly when the field is null.
C4_CoalesceMerge ==
    /\ Len(prev.alumni) <= Len(db.alumni)
    /\ \A i \in 1..Len(prev.alumni) :
          /\ prev.alumni[i].year_of_birth # NULL =>
                db.alumni[i].year_of_birth = prev.alumni[i].year_of_birth
          /\ prev.alumni[i].relationship_to_bu # NULL =>
                db.alumni[i].relationship_to_bu = prev.alumni[i].relationship_to_bu
    /\ (TouchesAlumnus /\ ~YobConflict(prev, TouchedId, last.claim)) =>
          /\ Len(db.alumni) = Len(prev.alumni)
          /\ prev.alumni[TouchedId].year_of_birth = NULL =>
                db.alumni[TouchedId].year_of_birth = last.claim.year_of_birth
          /\ prev.alumni[TouchedId].relationship_to_bu = NULL =>
                db.alumni[TouchedId].relationship_to_bu
                    = clean_relationship(last.claim.relationship)
          /\ \A i \in 1..Len(prev.alumni) : i # TouchedId => db.alumni[i] = prev.alumni[i]

\* A merge of a claim (1992, Alumnus) into a record born 1990 with no
\* relationship kept the birth year and filled the relationship.
C4_Witness ==
    /\ last.op = "update_alumni"
    /\ prev.alumni[last.id].year_of_birth = Some(1990)
    /\ prev.alumni[last.id].relationship_to_bu = NULL
    /\ last.claim.year_of_birth = Some(1992)
    /\ last.claim.relationship = Some(<<"A","l","u","m","n","u","s">>)
    /\ db.alumni[last.id].year_of_birth = Some(1990)
    /\ db.alumni[last.id].relationship_to_bu = Some(<<"s","t","u","d","e","n","t">>)

---------------------------------------------------------------------------
(* Properties of Employment_History *)

\* The last call was an employment call.
EmploymentCall ==
    last.op \in { "insert_employment_history", "update_employment_history" }

\* The Employment_History rows of an alumnus for a company name, whatever
\* its letter case.
EmploymentRows(d, id, company_name) ==
    { i \in 1..Len(d.employment) :
        /\ d.employment[i].alumni_id = id
        /\ d.employment[i].company_name # NULL
        /\ Lower(Val(d.employment[i].company_name)) = Lower(company_name) }

\* C5: after any insert_employment_history and update_employment_history
\* calls, no two EmploymentRecords have the same alumnus and the same
\* company reference, nor the same alumnus and company names equal up to
\* letter case, and a call with a null company name leaves the table as it
\* was.
C5_OnePerCompany ==
    /\ \A i, j \in 1..Len(db.employment) :
          (i # j /\ db.employment[i].alumni_id = db.employment[j].alumni_id) =>
              /\ db.employment[i].company_id # db.employment[j].company_id
              /\ Lower(Val(db.employment[i].company_name))
                    # Lower(Val(db.employment[j].company_name))
    /\ \A i \in 1..Len(db.employment) :
          /\ db.employment[i].company_id # NULL
          /\ db.employment[i].company_name # NULL
    /\ (EmploymentCall /\ last.employment_dict.company_name = NULL) =>
          db.employment = prev.employment

\* An insert for "Acme" on an alumnus with a record for "acme" added none.
C5_Witness ==
    /\ last.op = "insert_employment_history"
    /\ last.employment_dict.company_name = Some(Acme)
    /\ EmploymentRows(prev, last.id, Acme) # {}
    /\ Len(db.employment) = Len(prev.employment)
    /\ \E i \in 1..Len(db.employment) : db.employment[i].alumni_id # last.id

\* The year_start of an employment claim as the table stores it: an int as
\* it is, a str of digits as its value, anything else ("null", "present",
\* no value) as NULL.
StoredStart(y) ==
    IF y = NULL THEN NULL
    ELSE IF Val(y).t = "int" THEN Some(Val(y).n)
    ELSE IF y = Some(StrYear(<<"2","0","1","5">>)) THEN Some(2015)
    ELSE NULL

\* The year_end of an employment claim as the table stores it: as the
\* year_start, but "present" as the current year.
StoredEnd(y) ==
    IF y = Some(StrYear(<<"p","r","e","s","e","n","t">>)) THEN Some(CurrentYear)
    ELSE StoredStart(y)

\* Row `new` is row `old` with each null field among year_start, year_end,
\* location and compensation taking the claim's value, and nothing else
\* changed.
EmploymentFilled(old, new, claim) ==
    /\ new.alumni_id = old.alumni_id
    /\ new.company_id = old.company_id
    /\ new.company_name = old.company_name
    /\ new.year_start = IF old.year_start # NULL THEN old.year_start
                        ELSE StoredStart(claim.year_start)
    /\ new.year_end = IF old.year_end # NULL THEN old.year_end
                      ELSE StoredEnd(claim.year_end)
    /\ new.location = IF old.location # NULL THEN old.location ELSE claim.location
    /\ new.compensation = IF old.compensation # NULL THEN old.compensation
                          ELSE claim.compensation

---------------------------------------------------------------------------
(* Properties of Degree *)

\* Row `new` is row `old` with each null field taking the claim's value.
DegreeFilled(old, new, claim) ==
    /\ new.alumni_id = old.alumni_id
    /\ new.school = IF old.school # NULL THEN old.school ELSE claim.school
    /\ new.degree_type = IF old.degree_type # NULL THEN old.degree_type
                         ELSE claim.degree_type
    /\ new.start_year = IF old.start_year # NULL THEN old.start_year ELSE claim.start_year
    /\ new.end_year = IF old.end_year # NULL THEN old.end_year ELSE claim.end_year

\* The Degree rows of an alumnus.
DegreeRows(d, id) == { i \in 1..Len(d.degrees) : d.degrees[i].alumni_id = id }

\* C7: update_degree for an alumnus who owns exactly one DegreeRecord
\* updates that record in place, whatever the claim's degree type: no
\* record is added, its non-null fields (the degree type too) are kept, its
\* null fields take the claim's values, and every other record is unchanged.
C7_SingleDegreeInPlace ==
    (last.op = "update_degree" /\ Cardinality(DegreeRows(prev, last.id)) = 1) =>
        /\ Len(db.degrees) = Len(prev.degrees)
        /\ Cardinality(DegreeRows(db, last.id)) = 1
        /\ \A i \in 1..Len(prev.degrees) :
              IF i \in DegreeRows(prev, last.id)
              THEN DegreeFilled(prev.degrees[i], db.degrees[i], last.degree_dict)
              ELSE db.degrees[i] = prev.degrees[i]

\* An MS claim met the only record of an alumnus, a BA with no end year:
\* the record is still a BA and has the claim's end year.
C7_Witness ==
    /\ last.op = "update_degree"
    /\ Cardinality(DegreeRows(prev, last.id)) = 1
    /\ last.degree_dict.degree_type = Some("MS")
    /\ last.degree_dict.end_year # NULL
    /\ \E i \in DegreeRows(prev, last.id) :
          /\ prev.degrees[i].degree_type = Some("BA")
          /\ prev.degrees[i].end_year = NULL
          /\ db.degrees[i].degree_type = Some("BA")
          /\ db.degrees[i].end_year = last.degree_dict.end_year
    /\ Len(db.degrees) = Len(prev.degrees)

\* The Degree rows of an alumnus with the type of a claim.
DegreeRowsOfType(d, id, claim) ==
    { i \in DegreeRows(d, id) :
        claim.degree_type # NULL /\ d.degrees[i].degree_type = claim.degree_type }

---------------------------------------------------------------------------
(* Properties of Filings *)

\* The Filings rows of an alumnus for a link.
FilingRows(d, id, link) ==
    { i \in 1..Len(d.filings) : d.filings[i].alumni_id = id /\ d.filings[i].link = link }

\* The last call was update_filing on a pair that has one FilingLink.
RepeatedSighting ==
    /\ last.op = "update_filing"
    /\ Cardinality(FilingRows(prev, last.id, last.link)) = 1

\* C9 as claimed: each repeated sighting via update_filing sets the stored
\* text to the previous stored text, a newline, then the new text, and the
\* pair keeps its one FilingLink.
C9_NewlineJoined ==
    RepeatedSighting =>
        /\ Cardinality(FilingRows(db, last.id, last.link)) = 1
        /\ \A i \in FilingRows(prev, last.id, last.link) :
              db.filings[i].text_extracted
                 = prev.filings[i].text_extracted \o <<"\n">> \o last.sighting.text_extracted

\* C9 as amended: each repeated sighting via update_filing sets the stored
\* text to the previous stored text, a newline, then the new text when the
\* previous stored text is not empty, and to the new text alone when it is
\* empty; the pair keeps its one FilingLink, and no FilingLink is added.
C9_NewlineJoinedUnlessEmpty ==
    RepeatedSighting =>
        /\ Cardinality(FilingRows(db, last.id, last.link)) = 1
        /\ Len(db.filings) = Len(prev.filings)
        /\ \A i \in FilingRows(prev, last.id, last.link) :
              db.filings[i].text_extracted
                 = IF prev.filings[i].text_extracted # <<>>
                   THEN prev.filings[i].text_extracted \o <<"\n">>
                           \o last.sighting.text_extracted
                   ELSE last.sighting.text_extracted

\* A third sighting: the text "c" was added to the stored "a", newline, "b".
C9_Witness ==
    /\ RepeatedSighting
    /\ last.sighting.text_extracted = <<"c">>
    /\ \E i \in FilingRows(prev, last.id, last.link) :
          /\ prev.filings[i].text_extracted = <<"a", "\n", "b">>
          /\ db.filings[i].text_extracted = <<"a", "\n", "b", "\n", "c">>

\* C10: on a repeated sighting update_filing changes the filing date and
\* the company reference of a FilingLink only when the stored value is
\* null: a stored non-null value is never replaced.
C10_FilledOnlyWhenNull ==
    last.op = "update_filing" =>
        \A i \in FilingRows(prev, last.id, last.link) :
            /\ prev.filings[i].date # NULL => db.filings[i].date = prev.filings[i].date
            /\ prev.filings[i].company_id # NULL =>
                  db.filings[i].company_id = prev.filings[i].company_id

---------------------------------------------------------------------------
(* The delegated extraction service *)

\* The passages of the documents, by their text.
Case1 == <<"c","a","s","e","1">>
Case2 == <<"c","a","s","e","2">>
Bio   == <<"b","i","o">>
Later == <<"l","a","t","e","r">>
Wife  == <<"w","i","f","e">>
Nobody == <<"n","o","b","o","d","y">>
Garbled == <<"g","a","r","b","l","e","d">>

Texts == { Case1, Case2, Bio, Later, Wife, Nobody, Garbled }

\* One object of the list the service answers for the names of a passage.
Person(name, reconsider) ==
    [ name |-> name, reconsider |-> reconsider, year_of_birth |-> NULL,
      relationship |-> Some(<<"S","t","u","d","e","n","t">>) ]

\* json.loads of a response: the list it holds, or a JSONDecodeError.
Json(list) == [ok |-> TRUE, list |-> list]
Malformed == [ok |-> FALSE, list |-> <<>>]

\* What extract_bu_names answers for a passage; case1 and case2 are the
\* answers of mock_extract_bu_names.
extract_bu_names(text) ==
    CASE text = Case1 -> Json(<< Person(<<"John", "Smith">>, Some("Y")),
                                 Person(<<"Alice", "Brown">>, Some("Y")),
                                 Person(<<"Ms.", "Brown">>, Some("Y")) >>)
      [] text = Case2 -> Json(<< Person(<<"Ms.", "Doe">>, Some("Y")),
                                 Person(<<"John", "Smith">>, Some("N")) >>)
      [] text = Bio   -> Json(<< Person(<<"John", "Smith">>, Some("Y")) >>)
      [] text = Later -> Json(<< Person(<<"Mr.", "Smith">>, Some("Y")) >>)
      [] text = Wife  -> Json(<< Person(<<"Mrs.", "Smith">>, Some("Y")) >>)
      [] text = Nobody -> Json(<< Person(<<"Jane", "Doe">>, Some("N")),
                                  Person(<<"Mr.", "Brown">>, Some("N")),
                                  Person(<<"Dr.", "Doe">>, NULL) >>)
      [] text = Garbled -> Malformed
      [] OTHER -> Json(<<>>)

\* What extract_employment_history answers for a person and a passage: the
\* employment the passage tells of.
extract_employment_history(text, PERSON_NAME) ==
    IF text = Later
    THEN << [ company_name |-> Some(<<"A","c","m","e"," ","C","o","r","p">>),
              year_start |-> Some(StrYear(<<"2","0","0","1">>)), year_end |-> NULL,
              location |-> NULL, compensation |-> NULL ] >>
    ELSE <<>>

\* What extract_degree answers for a person and a passage: the degrees the
\* passage tells of.
extract_degree(text, PERSON_NAME) ==
    IF text = Bio
    THEN << [ school |-> Some("Questrom School of Business"),
              degree_type |-> Some("MBA"),
              start_year |-> NULL, end_year |-> Some(1998) ] >>
    ELSE <<>>

---------------------------------------------------------------------------
(* reconcile_person_matches *)

\* The characters of the words the names are made of.
Spelling(word) ==
    CASE word = "Mr."  -> <<"M","r",".">>
      [] word = "Ms."  -> <<"M","s",".">>
      [] word = "Mrs." -> <<"M","r","s",".">>
      [] word = "Dr."  -> <<"D","r",".">>
      [] word = "John" -> <<"J","o","h","n">>
      [] word = "Jane" -> <<"J","a","n","e">>
      [] word = "Alice" -> <<"A","l","i","c","e">>
      [] word = "Smith" -> <<"S","m","i","t","h">>
      [] word = "Brown" -> <<"B","r","o","w","n">>
      [] word = "Doe"  -> <<"D","o","e">>
      [] word = "Unknown" -> <<"U","n","k","n","o","w","n">>

\* The str of a name: its words with a space between them.
RECURSIVE NameStr(_)
NameStr(name) ==
    IF name = <<>> THEN <<>>
    ELSE IF Len(name) = 1 THEN Spelling(name[1])
    ELSE Spelling(Head(name)) \o <<" ">> \o NameStr(Tail(name))

\* Python's `sub in s` on str.
In(sub, s) ==
    \E i \in 0..(Len(s) - Len(sub)) : SubSeq(s, i + 1, i + Len(sub)) = sub

titles == << <<"M","r",".">>, <<"M","s",".">>, <<"M","r","s",".">>, <<"D","r",".">> >>

\* any(title in name for title in titles)
has_title(name) == \E k \in 1..Len(titles) : In(titles[k], NameStr(name))

\* name.split()[-1]
last_word(name) == name[Len(name)]

\* The lists and sets reconcile_person_matches starts with.
EmptyMatches ==
    [ person_matches |-> <<>>, title_matches |-> <<>>, title_names_set |-> {},
      person_name_set |-> {}, last_name_set |-> {} ]

\* A claim goes on unless it has no reconsider field.
reconsider_not_missing(persons_dict) == persons_dict.reconsider # NULL

\* Whether a claim goes on: persons_dict.get('reconsider') == 'Y'.
reconsider(persons_dict) == persons_dict.reconsider = Some("Y")

\* The loop over the persons_list of one passage.
RECURSIVE persons_loop(_, _, _)
persons_loop(m, persons_list, matching_text) ==
    IF persons_list = <<>> THEN m
    ELSE LET persons_dict == [ name          |-> Head(persons_list).name,
                               reconsider    |-> Head(persons_list).reconsider,
                               year_of_birth |-> Head(persons_list).year_of_birth,
                               relationship  |-> Head(persons_list).relationship,
                               matching_text |-> matching_text ]
             name == persons_dict.name
             m1 == IF ~reconsider(persons_dict) THEN m
                   ELSE IF has_title(name)
                   THEN IF name \notin m.title_names_set
                        THEN [m EXCEPT !.title_names_set = @ \cup {name},
                                       !.title_matches = Append(@, persons_dict)]
                        ELSE m
                   ELSE IF name \notin m.person_name_set
                        THEN [m EXCEPT !.person_name_set = @ \cup {name},
                                       !.last_name_set = @ \cup {last_word(name)},
                                       !.person_matches = Append(@, persons_dict)]
                        ELSE m
         IN  persons_loop(m1, Tail(persons_list), matching_text)

\* The loop over the passages; a response json.loads cannot read raises out
\* of the loop and of the function.
RECURSIVE passages_loop(_, _, _)
passages_loop(m, all_pattern_matches, service) ==
    IF all_pattern_matches = <<>> THEN [raised |-> FALSE, m |-> m]
    ELSE LET matching_text == Head(all_pattern_matches)
             persons_found == service[matching_text]
         IN  IF ~persons_found.ok THEN [raised |-> TRUE, m |-> m]
             ELSE passages_loop(persons_loop(m, persons_found.list, matching_text),
                                Tail(all_pattern_matches), service)

\* The loop over title_matches without the test of the last name.
titles_loop_keep_all(person_matches, last_name_set, title_matches) ==
    person_matches \o title_matches

\* The loop over title_matches: a titled claim is appended when its last
\* name is not in last_name_set, and its last name is added to the set.
RECURSIVE titles_loop(_, _, _)
titles_loop(person_matches, last_name_set, title_matches) ==
    IF title_matches = <<>> THEN person_matches
    ELSE LET title_dict == Head(title_matches)
             last_name == last_word(title_dict.name)
         IN  IF last_name \notin last_name_set
             THEN titles_loop(Append(person_matches, title_dict),
                              last_name_set \cup {last_name}, Tail(title_matches))
             ELSE titles_loop(person_matches, last_name_set, Tail(title_matches))

\* reconcile_person_matches with the service as a function of the passage
\* text: the list it returns, or that it raised.
reconcile_person_matches(all_pattern_matches, service) ==
    LET r == passages_loop(EmptyMatches, all_pattern_matches, service)
    IN  IF r.raised THEN [raised |-> TRUE, person_matches |-> <<>>]
        ELSE [raised |-> FALSE,
              person_matches |-> titles_loop(r.m.person_matches, r.m.last_name_set,
                                             r.m.title_matches)]

\* The service of the runs.
Service == [text \in Texts |-> extract_bu_names(text)]

---------------------------------------------------------------------------
(* Calls of reconcile_person_matches *)

\* Number of passages of a document.
MaxPassages == 3

\* The documents: the passages the section locator hands over, in order.
Documents == UNION { [1..n -> Texts] : n \in 0..MaxPassages }

InitReconcile ==
    /\ db = EmptyDb
    /\ prev = EmptyDb
    /\ nops = 0
    /\ InitEnv
    /\ \E all_pattern_matches \in Documents :
          last = [op |-> "input", all_pattern_matches |-> all_pattern_matches, ret |-> NULL]

ReconcilePersonMatches ==
    /\ last.op = "input"
    /\ last' = [op |-> "reconcile_person_matches",
                all_pattern_matches |-> last.all_pattern_matches,
                ret |-> reconcile_person_matches(last.all_pattern_matches, Service)]
    /\ nops' = nops + 1
    /\ UNCHANGED <<db, prev, cache, now, written, run>>

NextReconcile == ReconcilePersonMatches

SpecReconcile == InitReconcile /\ [][NextReconcile]_vars

---------------------------------------------------------------------------
(* Properties of reconcile_person_matches *)

Reconciled == last.op = "reconcile_person_matches"

\* The elements of a list.
Range(s) == { s[i] : i \in 1..Len(s) }

\* The claims of the passages of a document under a service, in passage
\* order, each with the passage it comes from.
RECURSIVE Claims(_, _)
Claims(all_pattern_matches, service) ==
    IF all_pattern_matches = <<>> THEN <<>>
    ELSE LET text == Head(all_pattern_matches)
             list == service[text].list
         IN  [ j \in 1..Len(list) |->
                 [ name          |-> list[j].name,
                   reconsider    |-> list[j].reconsider,
                   year_of_birth |-> list[j].year_of_birth,
                   relationship  |-> list[j].relationship,
                   matching_text |-> text ] ]
             \o Claims(Tail(all_pattern_matches), service)

\* The claims of the last document that go on to reconciliation.
LastClaims == Claims(last.all_pattern_matches, Service)
TitledAt(k) == LastClaims[k].reconsider = Some("Y") /\ has_title(LastClaims[k].name)

\* The bare-name claims the result retains, and whether one of them has
\* the last name of claim c.
RetainedBare == { c \in Range(last.ret.person_matches) : ~has_title(c.name) }
BareHasLastNameOf(c) == \E b \in RetainedBare : last_word(b.name) = last_word(c.name)

\* C13 (as stated): a title-qualified claim is excluded from the result
\* whenever some retained bare-name claim has the same last name, whichever
\* of the two comes first in the passages, and a title-qualified claim whose
\* last name occurs in no retained bare-name claim is included.
C13_TitleRule ==
    (Reconciled /\ ~last.ret.raised) =>
        \A k \in 1..Len(LastClaims) :
            TitledAt(k) =>
                (LastClaims[k] \in Range(last.ret.person_matches)
                    <=> ~BareHasLastNameOf(LastClaims[k]))

\* C13 (amended): a title-qualified claim is excluded whenever some retained
\* bare-name claim has the same last name, whichever comes first; of the
\* title-qualified claims whose last name occurs in no retained bare-name
\* claim, the first of each last name in passage order is included and the
\* later ones of that last name are excluded.
C13_TitleRuleFirstPerLastName ==
    (Reconciled /\ ~last.ret.raised) =>
        \A k \in 1..Len(LastClaims) :
            TitledAt(k) =>
                (LastClaims[k] \in Range(last.ret.person_matches)
                    <=> /\ ~BareHasLastNameOf(LastClaims[k])
                        /\ \E f \in 1..Len(LastClaims) :
                              /\ LastClaims[f] = LastClaims[k]
                              /\ \A e \in 1..(f - 1) :
                                    TitledAt(e) =>
                                        last_word(LastClaims[e].name)
                                            # last_word(LastClaims[k].name))

\* A document where a title-qualified claim comes before the bare-name claim
\* of its last name and is excluded, and another title-qualified claim is
\* included.
C13_Witness ==
    /\ Reconciled /\ ~last.ret.raised
    /\ \E k, b \in 1..Len(LastClaims) :
          /\ k < b
          /\ TitledAt(k)
          /\ LastClaims[b] \in RetainedBare
          /\ last_word(LastClaims[b].name) = last_word(LastClaims[k].name)
          /\ LastClaims[k] \notin Range(last.ret.person_matches)
    /\ \E c \in Range(last.ret.person_matches) : has_title(c.name)

\* The service with the claims marked "N" taken out of its answers.
WithoutN ==
    [ text \in Texts |->
        [ ok   |-> Service[text].ok,
          list |-> SelectSeq(Service[text].list, LAMBDA p : p.reconsider # Some("N")) ] ]

\* C14: a claim whose reconsider field is "N" never appears in the result
\* of reconcile_person_matches and has no influence on which other claims
\* are retained: the result is the one the passages give without it.
C14_NDiscarded ==
    Reconciled =>
        /\ \A c \in Range(last.ret.person_matches) : c.reconsider # Some("N")
        /\ last.ret = reconcile_person_matches(last.all_pattern_matches, WithoutN)

\* A document where a claim marked "N" comes before a retained claim of the
\* same name, and one before a retained title-qualified claim of the same
\* last name.
C14_Witness ==
    /\ Reconciled /\ ~last.ret.raised
    /\ \E n, k \in 1..Len(LastClaims) :
          /\ n < k
          /\ LastClaims[n].reconsider = Some("N")
          /\ LastClaims[n].name = LastClaims[k].name
          /\ LastClaims[k] \in Range(last.ret.person_matches)
    /\ \E n, k \in 1..Len(LastClaims) :
          /\ n < k
          /\ LastClaims[n].reconsider = Some("N")
          /\ ~has_title(LastClaims[n].name)
          /\ last_word(LastClaims[n].name) = last_word(LastClaims[k].name)
          /\ has_title(LastClaims[k].name)
          /\ LastClaims[k] \in Range(last.ret.person_matches)

\* The passages of a document whose responses json.loads can read.
WellFormed(all_pattern_matches) ==
    SelectSeq(all_pattern_matches, LAMBDA text : Service[text].ok)

\* C19: when the service answers a malformed response for one passage,
\* reconcile_person_matches drops that passage's claims only and returns
\* the claims of the well-formed responses of the other passages.
C19_MalformedDropsOnlyPassage ==
    Reconciled =>
        /\ ~last.ret.raised
        /\ last.ret = reconcile_person_matches(WellFormed(last.all_pattern_matches), Service)

---------------------------------------------------------------------------
(* The loop over the documents of a batch *)

\* Number of documents of a batch.
MaxFiles == 2

\* Number of sections the locator finds in a document of a batch.
MaxSections == 2

\* The passages of the documents of a batch.
BatchTexts == { Bio, Later, Wife, Garbled }

\* The documents of a batch: one the download of which fails, one without
\* content, one the section locator raises on, and the ones with sections.
Files ==
    { [kind |-> k, sections |-> <<>>] :
        k \in { "download_failed", "no_content", "locate_raises" } }
    \cup { [kind |-> "sections", sections |-> s] :
             s \in UNION { [1..n -> BatchTexts] : n \in 0..MaxSections } }

\* files[file_index]: the link of a document of the index.
FileLink(file_index) == IF file_index = 0 THEN "L1" ELSE "L2"

\* A claim as process_person_matches handles it: with the answers of the
\* service for the employment and the degrees of its matching_text.
with_extractions(persons_dict) ==
    [ name            |-> persons_dict.name,
      year_of_birth   |-> persons_dict.year_of_birth,
      relationship    |-> persons_dict.relationship,
      matching_text   |-> persons_dict.matching_text,
      employment_list |-> extract_employment_history(persons_dict.matching_text,
                                                     persons_dict.name),
      degree_list     |-> extract_degree(persons_dict.matching_text, persons_dict.name) ]

\* One document of the loop of __main__: what the iteration did (a continue,
\* an exception that left the loop, or the whole body) and the rosters it
\* may leave.
process_file(d, file, src) ==
    IF file.kind \in { "download_failed", "no_content" }
    THEN { [did |-> "continue", person_matches |-> <<>>, db |-> d] }
    ELSE IF file.kind = "locate_raises"
    THEN { [did |-> "raised", person_matches |-> <<>>, db |-> d] }
    ELSE LET r == reconcile_person_matches(file.sections, Service)
         IN  IF r.raised
             THEN { [did |-> "raised", person_matches |-> <<>>, db |-> d] }
             ELSE { [did |-> "processed", person_matches |-> r.person_matches, db |-> dd] :
                      dd \in process_person_matches(
                                {d},
                                [ i \in 1..Len(r.person_matches) |->
                                    with_extractions(r.person_matches[i]) ],
                                Filing(src).company_name, Filing(src).company_cik,
                                Filing(src).filing_date, src) }

\* One iteration of the loop: the next document of the index.  An exception
\* that leaves the loop ends the run.
ProcessFile ==
    /\ run = "running"
    /\ nops < MaxFiles
    /\ \E file \in Files :
          \E o \in process_file(db, file, FileLink(nops)) :
              /\ db' = o.db
              /\ prev' = db
              /\ run' = IF o.did = "raised" THEN "raised" ELSE "running"
              /\ last' = [ op |-> "file", file_index |-> nops, file |-> file,
                           did |-> o.did, person_matches |-> o.person_matches,
                           ret |-> NULL ]
    /\ nops' = nops + 1
    /\ UNCHANGED <<cache, now, written>>

NextBatch == ProcessFile

SpecBatch == Init /\ [][NextBatch]_vars

---------------------------------------------------------------------------
(* Properties of the batch *)

\* The document of the end-to-end scenario: a passage with the bare name
\* and the degree, then a passage with the title-qualified name and the
\* employment.
Scenario == [kind |-> "sections", sections |-> << Bio, Later >>]

\* C11: for one document with a passage giving the claim "John Smith" with
\* the degree MBA 1998 and a second passage giving the claim "Mr. Smith"
\* with the employment Acme Corp 2001, reconcile_person_matches then
\* process_person_matches on an empty roster leave exactly one AlumniRecord
\* owning one DegreeRecord (MBA, end year 1998) and one EmploymentRecord
\* (Acme Corp, start year 2001).
C11_EndToEnd ==
    (last.op = "file" /\ last.file = Scenario /\ prev = EmptyDb) =>
        /\ Len(db.alumni) = 1
        /\ Len(db.degrees) = 1
        /\ db.degrees[1].alumni_id = 1
        /\ db.degrees[1].degree_type = Some("MBA")
        /\ db.degrees[1].end_year = Some(1998)
        /\ Len(db.employment) = 1
        /\ db.employment[1].alumni_id = 1
        /\ db.employment[1].company_name = Some(<<"a","c","m","e"," ","c","o","r","p">>)
        /\ db.employment[1].year_start = Some(2001)

\* C20: an exception raised while processing one document is caught at the
\* loop and the run goes on with the next document: no document's failure
\* makes the run leave the loop.
C20_RunNeverLeavesLoop == run # "raised"

---------------------------------------------------------------------------
(* deduplicate_matches *)

\* Characters str.strip() removes.
Whitespace == { " ", "\t", "\n", "\r" }

\* str.lstrip(), str.rstrip() and str.strip().
RECURSIVE LStrip(_)
LStrip(s) == IF s # <<>> /\ Head(s) \in Whitespace THEN LStrip(Tail(s)) ELSE s

RECURSIVE RStrip(_)
RStrip(s) ==
    IF s # <<>> /\ s[Len(s)] \in Whitespace THEN RStrip(SubSeq(s, 1, Len(s) - 1)) ELSE s

Strip(s) == RStrip(LStrip(s))

\* The length of the context snippet of a key.
ContextSnippet == 100

\* s[:n]
Slice(s, n) == SubSeq(s, 1, IF Len(s) < n THEN Len(s) ELSE n)

\* The key with the whole context in place of its first characters.
key_whole_context(match) ==
    << Strip(Lower(match.person_name)), Strip(Lower(match.context)) >>

\* The key of a match: its person name and its context snippet.
key(match) ==
    << Strip(Lower(match.person_name)),
       Strip(Lower(Slice(match.context, ContextSnippet))) >>

\* The loop of deduplicate_matches.
RECURSIVE dedup_loop(_, _, _)
dedup_loop(seen, unique_matches, matches) ==
    IF matches = <<>> THEN unique_matches
    ELSE IF key(Head(matches)) \notin seen
    THEN dedup_loop(seen \cup {key(Head(matches))}, Append(unique_matches, Head(matches)),
                    Tail(matches))
    ELSE dedup_loop(seen, unique_matches, Tail(matches))

deduplicate_matches(matches) == dedup_loop({}, <<>>, matches)

---------------------------------------------------------------------------
(* Calls of deduplicate_matches *)

\* Number of matches of a list.
MaxMatches == 3

\* n characters of filler.
Filler(n) == [i \in 1..n |-> "x"]

\* Contexts: two that differ after the snippet, one that differs from them
\* at the last character of the snippet, and two short ones that differ by
\* a leading space.
Contexts ==
    { Filler(ContextSnippet) \o <<"a">>,
      Filler(ContextSnippet) \o <<"b">>,
      Filler(ContextSnippet - 1) \o <<"B", "a">>,
      <<" ", "B", "U">>,
      <<"B", "U">> }

\* Two names that differ by case and by a trailing space.
PersonNames == { <<"J","o">>, <<"j","o"," ">> }

Matches ==
    [ person_name : PersonNames, context : Contexts,
      affiliation_type : {"degree"}, confidence : {"high"} ]

MatchLists == UNION { [1..n -> Matches] : n \in 0..MaxMatches }

InitDedup ==
    /\ db = EmptyDb
    /\ prev = EmptyDb
    /\ nops = 0
    /\ InitEnv
    /\ \E matches \in MatchLists :
          last = [op |-> "input", matches |-> matches, ret |-> NULL]

DeduplicateMatches ==
    /\ last.op = "input"
    /\ last' = [op |-> "deduplicate_matches", matches |-> last.matches,
                ret |-> deduplicate_matches(last.matches)]
    /\ nops' = nops + 1
    /\ UNCHANGED <<db, prev, cache, now, written, run>>

NextDedup == DeduplicateMatches

SpecDedup == InitDedup /\ [][NextDedup]_vars

---------------------------------------------------------------------------
(* Properties of deduplicate_matches *)

Deduplicated == last.op = "deduplicate_matches"

\* The key as the lower-cased person name and the lower-cased first 100
\* characters of the context.
LowerKey(match) == << Lower(match.person_name), Lower(Slice(match.context, 100)) >>

\* The same with surrounding whitespace taken off both parts.
StrippedKey(match) ==
    << Strip(Lower(match.person_name)), Strip(Lower(Slice(match.context, 100))) >>

\* The elements of list s at the indices of I, in order.
RECURSIVE Restrict(_, _, _)
Restrict(s, I, from) ==
    IF from > Len(s) THEN <<>>
    ELSE (IF from \in I THEN << s[from] >> ELSE <<>>) \o Restrict(s, I, from + 1)

\* Whether `out` keeps one claim per key `K` of `in`: no key twice, a
\* subsequence of `in`, and the claims kept are the first of each key.
FirstPerKey(in, out, K(_)) ==
    LET kin  == [i \in 1..Len(in) |-> K(in[i])]
        kout == [i \in 1..Len(out) |-> K(out[i])]
    IN  /\ \A i, j \in 1..Len(out) : i # j => kout[i] # kout[j]
        /\ \E I \in SUBSET (1..Len(in)) :
              /\ out = Restrict(in, I, 1)
              /\ \A k \in 1..Len(in) :
                    (\A e \in 1..(k - 1) : kin[e] # kin[k]) => k \in I

\* C12 (as stated): the output of deduplicate_matches contains each key
\* (lower-cased person name, lower-cased first 100 characters of context) at
\* most once, is a subsequence of the input, and for each key keeps the
\* first input claim having that key.
C12_FirstPerLowerKey ==
    Deduplicated => FirstPerKey(last.matches, last.ret, LowerKey)

\* C12 (amended): the same with the key taken after stripping the
\* whitespace around the lower-cased name and around the lower-cased first
\* 100 characters of the context.
C12_FirstPerStrippedKey ==
    Deduplicated => FirstPerKey(last.matches, last.ret, StrippedKey)

\* A list where a claim is dropped because its context agrees with an
\* earlier one on the first 100 characters only, and a claim is dropped
\* because its name differs from an earlier one by case and whitespace only.
C12_Witness ==
    /\ Deduplicated
    /\ Len(last.ret) < Len(last.matches)
    /\ \E i, j \in 1..Len(last.matches) :
          /\ i < j
          /\ last.matches[i].context # last.matches[j].context
          /\ Len(last.matches[j].context) > 100
          /\ StrippedKey(last.matches[i]) = StrippedKey(last.matches[j])
          /\ last.matches[j] \notin Range(last.ret)
    /\ \E i, j \in 1..Len(last.matches) :
          /\ i < j
          /\ last.matches[i].person_name # last.matches[j].person_name
          /\ StrippedKey(last.matches[i]) = StrippedKey(last.matches[j])
          /\ last.matches[j] \notin Range(last.ret)

---------------------------------------------------------------------------
(* The document cache: FilingCache *)

\* A function's outcome on the cache: the rows it leaves and the value it
\* returns.
CacheOut(c, r) == [cache |-> c, ret |-> r]

\* The rows of an accession number.
rows_of(c, accession_number) == { r \in c : r.accession_number = accession_number }

\* _is_expired with >= in place of >.
is_expired_at_ttl(timestamp, current_time) == (current_time - timestamp) >= ttl_seconds

\* _is_expired: whether a timestamp is older than the time-to-live.
is_expired(timestamp, current_time) == (current_time - timestamp) > ttl_seconds

\* get: the content of the row of accession_number, or None when there is
\* no row or the row is expired; an expired row is deleted.
get(c, accession_number, current_time) ==
    IF rows_of(c, accession_number) = {} THEN CacheOut(c, NULL)
    ELSE LET row == CHOOSE r \in rows_of(c, accession_number) : TRUE
         IN  IF is_expired(row.download_timestamp, current_time)
             THEN CacheOut(c \ rows_of(c, accession_number), NULL)
             ELSE CacheOut(c, Some(row.content))

\* INSERT without OR REPLACE on a table without the primary key.
insert_beside(c, row) == c \cup {row}

\* INSERT OR REPLACE: the row takes the place of the row with its primary
\* key, if there is one.
insert_or_replace(c, row) == (c \ rows_of(c, row.accession_number)) \cup {row}

\* set: store the content with the time of the call and its length.
set(c, accession_number, content, current_time) ==
    CacheOut(insert_or_replace(c, [ accession_number   |-> accession_number,
                                    content            |-> content,
                                    download_timestamp |-> current_time,
                                    file_size          |-> Len(content) ]),
             NULL)

\* clear_expired that also deletes the rows as old as the time-to-live.
clear_expired_at_ttl(c, current_time) ==
    LET cutoff_time == current_time - ttl_seconds
        gone == { r \in c : r.download_timestamp <= cutoff_time }
    IN  CacheOut(c \ gone, Cardinality(gone))

\* clear_expired: delete the rows older than the time-to-live; returns
\* their number.
clear_expired(c, current_time) ==
    LET cutoff_time == current_time - ttl_seconds
        gone == { r \in c : r.download_timestamp < cutoff_time }
    IN  CacheOut(c \ gone, Cardinality(gone))

\* clear_all: delete every row; returns their number.
clear_all(c) == CacheOut({}, Cardinality(c))

\* has: whether get returns a content.
has(c, accession_number, current_time) ==
    CacheOut(get(c, accession_number, current_time).cache,
             get(c, accession_number, current_time).ret # NULL)

\* SUM(file_size) and MIN(download_timestamp): NULL on no rows.
RECURSIVE SumSizes(_)
SumSizes(c) ==
    IF c = {} THEN 0
    ELSE LET r == CHOOSE x \in c : TRUE IN r.file_size + SumSizes(c \ {r})

SUM_file_size(c) == IF c = {} THEN NULL ELSE Some(SumSizes(c))

MIN_download_timestamp(c) ==
    IF c = {} THEN NULL
    ELSE Some(CHOOSE t \in { r.download_timestamp : r \in c } :
                \A r \in c : t <= r.download_timestamp)

\* round(n / d, digits) as the number of units of 10^-digits, for n >= 0:
\* to the nearest unit, a tie to the even one.
Rounded(n, d, units) ==
    LET q == (n * units) \div d
        m == (n * units) % d
    IN  IF 2 * m > d \/ (2 * m = d /\ q % 2 = 1) THEN q + 1 ELSE q

\* Python's truth value of an int or None.
Truthy(x) == x # NULL /\ Val(x) # 0

\* get_stats: the number of rows, their total size in hundredths of a MB
\* and the age of the oldest row in tenths of a day (None when the age is
\* not truthy).
get_stats(c, current_time) ==
    LET count == Cardinality(c)
        total_size == COALESCE(SUM_file_size(c), Some(0))
        oldest == MIN_download_timestamp(c)
        age_seconds == current_time - Val(oldest)
        \* oldest_days = age_seconds / (24 * 60 * 60) is truthy unless it is 0
        oldest_days == IF Truthy(oldest) THEN Some(age_seconds) ELSE NULL
    IN  [ total_entries     |-> count,
          total_size_mb     |-> Rounded(Val(total_size), 1024 * 1024, 100),
          oldest_entry_days |-> IF Truthy(oldest_days)
                                THEN Some(Rounded(Val(oldest_days), 24 * 60 * 60, 10))
                                ELSE NULL ]

---------------------------------------------------------------------------
(* Calls of the cache *)

\* Number of calls and clock steps in one run of the cache.
MaxCacheOps == 5

\* The contents stored.
Contents == { <<"a">>, <<"b","b">> }

\* One call of the cache, of at most MaxCacheOps in a run: the rows before
\* it, the call and what it returned.  `history` is what it makes of the
\* history of sets.
CacheCall(record, out, history) ==
    /\ nops < MaxCacheOps
    /\ nops' = nops + 1
    /\ cache' = out.cache
    /\ last' = [record EXCEPT !.ret = out.ret, !.before = cache, !.at = now]
    /\ written' = history
    /\ UNCHANGED <<db, prev, now, run>>

CacheRecord(op, id, content) ==
    [op |-> op, id |-> id, content |-> content, ret |-> NULL, before |-> {}, at |-> 0]

Set ==
    /\ nops < MaxCacheOps
    /\ \E id \in CacheIds, content \in Contents :
          CacheCall(CacheRecord("set", id, content), set(cache, id, content, now),
                    [written EXCEPT ![id] = Some([content |-> content, at |-> now])])

Get ==
    /\ nops < MaxCacheOps
    /\ \E id \in CacheIds :
          CacheCall(CacheRecord("get", id, <<>>), get(cache, id, now), written)

Has ==
    /\ nops < MaxCacheOps
    /\ \E id \in CacheIds :
          CacheCall(CacheRecord("has", id, <<>>), has(cache, id, now), written)

ClearExpired ==
    /\ nops < MaxCacheOps
    /\ CacheCall(CacheRecord("clear_expired", "", <<>>), clear_expired(cache, now), written)

ClearAll ==
    /\ nops < MaxCacheOps
    /\ CacheCall(CacheRecord("clear_all", "", <<>>), clear_all(cache),
                 [id \in CacheIds |-> NULL])

GetStats ==
    /\ nops < MaxCacheOps
    /\ CacheCall(CacheRecord("get_stats", "", <<>>),
                 CacheOut(cache, get_stats(cache, now)), written)

\* Time passes: a second, or a time-to-live.
Tick ==
    /\ nops < MaxCacheOps
    /\ nops' = nops + 1
    /\ \E seconds \in { 1, ttl_seconds } : now' = now + seconds
    /\ UNCHANGED <<db, prev, last, cache, written, run>>

NextCache == Set \/ Get \/ Has \/ ClearExpired \/ ClearAll \/ GetStats \/ Tick

SpecCache == Init /\ [][NextCache]_vars

---------------------------------------------------------------------------
(* Properties of the cache *)

\* C15: after set(id, content), a get(id) before the entry expires returns
\* exactly content, whatever other ids were set, read or cleared
\* selectively in between.
C15_RoundTrip ==
    (/\ last.op = "get"
     /\ written[last.id] # NULL
     /\ last.at - Val(written[last.id]).at <= ttl_seconds) =>
        last.ret = Some(Val(written[last.id]).content)

\* A get of an id a time-to-live after it was set, the other id having been
\* set in between.
C15_Witness ==
    /\ last.op = "get"
    /\ written[last.id] # NULL
    /\ last.at > Val(written[last.id]).at
    /\ last.at - Val(written[last.id]).at <= ttl_seconds
    /\ \E other \in CacheIds :
          /\ other # last.id
          /\ written[other] # NULL
          /\ Val(written[other]).at - Val(written[last.id]).at > ttl_seconds \div 2
    /\ last.ret = Some(Val(written[last.id]).content)

\* What a read of the cache looks at: the rows of its id before the call.
Read == last.op \in { "get", "has" }
RowsRead == rows_of(last.before, last.id)
Absent == IF last.op = "get" THEN last.ret = NULL ELSE last.ret = FALSE

\* C16: get(id) on an entry with now - fetchedAt > ttl returns absent and
\* deletes that entry, so the entry count drops by one and later get/has for
\* that id report absent until the next set; an entry with
\* now - fetchedAt <= ttl is returned and not deleted.
C16_ReadTriggeredEviction ==
    /\ Read =>
          \A r \in RowsRead :
              IF last.at - r.download_timestamp > ttl_seconds
              THEN /\ Absent
                   /\ cache = last.before \ {r}
                   /\ Cardinality(cache) = Cardinality(last.before) - 1
              ELSE /\ IF last.op = "get" THEN last.ret = Some(r.content) ELSE last.ret = TRUE
                   /\ cache = last.before
    /\ (Read /\ RowsRead = {}) => (Absent /\ cache = last.before)
    /\ (last.op \in { "get", "has", "clear_expired", "clear_all", "get_stats" }) =>
          cache \subseteq last.before

\* A get that evicts an entry while another entry stays.
C16_Witness ==
    /\ last.op = "get"
    /\ \E r \in RowsRead : last.at - r.download_timestamp > ttl_seconds
    /\ last.ret = NULL
    /\ cache # {}
    /\ Cardinality(cache) = Cardinality(last.before) - 1

\* C17: set(id, content) on an id that already has an entry fully replaces
\* it: afterwards there is exactly one entry for id, with the new content,
\* the time of this set and the size of the new content, and the entries
\* of other ids are unchanged.
C17_SetReplaces ==
    last.op = "set" =>
        /\ rows_of(cache, last.id) =
              { [ accession_number   |-> last.id,
                  content            |-> last.content,
                  download_timestamp |-> last.at,
                  file_size          |-> Len(last.content) ] }
        /\ cache \ rows_of(cache, last.id) = last.before \ rows_of(last.before, last.id)

\* A set on an id that had an entry with another content, another time and
\* another size, beside an entry of another id.
C17_Witness ==
    /\ last.op = "set"
    /\ \E r \in rows_of(last.before, last.id) :
          /\ r.content # last.content
          /\ r.download_timestamp # last.at
          /\ r.file_size # Len(last.content)
    /\ last.before \ rows_of(last.before, last.id) # {}
    /\ Cardinality(rows_of(cache, last.id)) = 1

\* C18: get_stats reports a null oldest-entry age exactly when the cache
\* holds no entries, and the true entry count: a non-null age whenever an
\* entry is stored, an entry stored in the same second included.
C18_NullAgeIffEmpty ==
    last.op = "get_stats" =>
        /\ last.ret.total_entries = Cardinality(last.before)
        /\ last.ret.oldest_entry_days = NULL <=> last.before = {}

----------------------------------------------------------------------------
(* Section locator: src/sec_filings/parser.py *)

\* A document as the pieces of its plain-text rendering.  A piece has a length
\* in characters, the heading phrases found in it (each with its offset in
\* the piece), the section-boundary words that match at its first character,
\* the offsets of its whitespace characters, and, for an HTML table, the
\* header cells and the number of data rows.
Piece(len, phrases, boundary, spaces, headers, rows) ==
    [len |-> len, phrases |-> phrases, boundary |-> boundary, spaces |-> spaces,
     headers |-> headers, rows |-> rows]

Heading(len, phrases) == Piece(len, phrases, {}, {}, <<>>, 0)

\* "Biographies"
Biographies == Heading(11, { [phrase |-> "BIOGRAPHIES", offset |-> 0] })

\* "Directors and Executive Officers"
DirectorsAndOfficers ==
    Heading(32, { [phrase |-> "DIRECTORS AND EXECUTIVE OFFICERS", offset |-> 0],
                  [phrase |-> "EXECUTIVE OFFICERS", offset |-> 14],
                  [phrase |-> "EXECUTIVE OFFICER", offset |-> 14] })

\* "Management Team"
ManagementTeamHeading ==
    Heading(15, { [phrase |-> "MANAGEMENT", offset |-> 0],
                  [phrase |-> "MANAGEMENT TEAM", offset |-> 0] })

\* "\nItem 11" and "\nPROPOSAL 2": a line that opens the next major section.
ItemLine == Piece(8, {}, {"Item"}, {0}, <<>>, 0)
ProposalLine == Piece(11, {}, {"PROPOSAL"}, {0}, <<>>, 0)

\* Prose that holds no heading and no boundary.
Prose(len) == Piece(len, {}, {}, {}, <<>>, 0)

\* A run of blanks.
Blanks(len) == Piece(len, {}, {}, 0..(len - 1), <<>>, 0)

\* A table of two data rows under the given header cells.
Table(headers) == Piece(120, {}, {}, {}, headers, 2)

NameAge == << <<"N","a","m","e">>, <<"A","g","e">> >>
TickerPrice == << <<"T","i","c","k","e","r">>, <<"P","r","i","c","e">> >>

\* len(text)
RECURSIVE TextLen(_)
TextLen(doc) == IF doc = <<>> THEN 0 ELSE Head(doc).len + TextLen(Tail(doc))

\* The offset in the text at which piece i begins.
StartOf(doc, i) == TextLen(SubSeq(doc, 1, i - 1))

\* The positions of the matches of one pattern: re.finditer(pattern, text).
finditer(pattern, doc) ==
    UNION { { StartOf(doc, i) + f.offset :
                f \in { g \in doc[i].phrases : g.phrase \in pattern.phrases } } :
            i \in 1..Len(doc) }

\* The least element of a non-empty set of integers.
Least(S) == CHOOSE x \in S : \A y \in S : x <= y

\* The increasing enumeration of a finite set of integers.
RECURSIVE Ascending(_)
Ascending(S) == IF S = {} THEN <<>> ELSE << Least(S) >> \o Ascending(S \ {Least(S)})

\* The shortest text the boundary expression can match: newline, word, blank,
\* one digit.
BoundaryMatch(word) == IF word = "Item" THEN 7 ELSE 11

\* re.search(next section header, text[from:end]): the positions, in the
\* text, at which a header lies wholly inside the slice.
next_section(doc, words, from, end) ==
    { StartOf(doc, i) : i \in { j \in 1..Len(doc) :
        /\ doc[j].boundary \cap words # {}
        /\ StartOf(doc, j) >= from
        /\ \E w \in doc[j].boundary \cap words : StartOf(doc, j) + BoundaryMatch(w) <= end } }

\* The end of text[start:end] once its trailing whitespace is taken off,
\* looking at the pieces from piece i down.
RECURSIVE StrippedEnd(_, _, _, _)
StrippedEnd(doc, i, start, end) ==
    IF i = 0 THEN start
    ELSE LET s == StartOf(doc, i)
             from == IF s > start THEN s ELSE start
             to == IF s + doc[i].len < end THEN s + doc[i].len ELSE end
         IN  IF from >= to THEN StrippedEnd(doc, i - 1, start, end)
             ELSE IF (to - 1 - s) \notin doc[i].spaces THEN to
             ELSE LET solid == { p \in from..(to - 1) : (p - s) \notin doc[i].spaces }
                  IN  IF solid = {} THEN StrippedEnd(doc, i - 1, start, end)
                      ELSE (CHOOSE p \in solid : \A q \in solid : q <= p) + 1

\* len(text[start:end].strip()), for a slice that begins with a heading.
StrippedLen(doc, start, end) == StrippedEnd(doc, Len(doc), start, end) - start

\* The window of one match: to the end of the span or to the next header.
window(doc, start, span, words) ==
    LET limit == IF start + span < TextLen(doc) THEN start + span ELSE TextLen(doc)
        found == next_section(doc, words, start + 100, limit)
        end == IF found # {} THEN Least(found) ELSE limit
    IN  [start_position |-> start, end |-> end, length |-> StrippedLen(doc, start, end)]

\* The loop over the patterns and their matches: the sections in the order
\* they are appended.
RECURSIVE sections_loop(_, _, _, _)
sections_loop(doc, bio_patterns, span, words) ==
    IF bio_patterns = <<>> THEN <<>>
    ELSE LET pattern == Head(bio_patterns)
             starts == Ascending(finditer(pattern, doc))
             found == [k \in 1..Len(starts) |->
                          LET w == window(doc, starts[k], span, words)
                          IN  [section_name |-> pattern.section_name,
                               start_position |-> w.start_position,
                               end |-> w.end, length |-> w.length]]
         IN  SelectSeq(found, LAMBDA s : s.length > 200)
                 \o sections_loop(doc, Tail(bio_patterns), span, words)

\* sorted(sections, key = start_position): a stable sort.
RECURSIVE sorted(_)
sorted(sections) ==
    IF sections = <<>> THEN <<>>
    ELSE LET rest == sorted(Tail(sections))
             s == Head(sections)
             before == Cardinality({ k \in 1..Len(rest) :
                                        rest[k].start_position < s.start_position })
         IN  SubSeq(rest, 1, before) \o << s >> \o SubSeq(rest, before + 1, Len(rest))

\* The overlap filter: a section is kept unless its start lies within the
\* positions marked by a section kept before it; table sections are kept always.
RECURSIVE unique(_, _)
unique(sections, seen_positions) ==
    IF sections = <<>> THEN <<>>
    ELSE LET s == Head(sections)
             pos == s.start_position
         IN  IF pos = -1 THEN << s >> \o unique(Tail(sections), seen_positions)
             ELSE IF pos \notin seen_positions
                  THEN << s >> \o unique(Tail(sections),
                                         seen_positions \cup ((pos - 100)..(pos + 99)))
                  ELSE unique(Tail(sections), seen_positions)

Pattern(section_name, phrases) == [section_name |-> section_name, phrases |-> phrases]

bio_patterns ==
    << Pattern("Item 10: Directors & Officers", {"ITEM 10 DIRECTORS, EXECUTIVE OFFICERS"}),
       Pattern("Directors & Officers", {"BOARD OF DIRECTORS", "DIRECTORS AND EXECUTIVE OFFICERS"}),
       Pattern("Executive Officers", {"EXECUTIVE OFFICERS", "MANAGEMENT"}),
       Pattern("Biographies", {"BIOGRAPHICAL INFORMATION", "BIOGRAPHIES"}),
       Pattern("Election of Directors", {"PROPOSAL 1 ELECTION OF DIRECTORS"}) >>

find_biographical_sections(html_content) ==
    unique(sorted(sections_loop(html_content, bio_patterns, 20000, {"Item"})), {})

bio_patterns_enhanced ==
    << Pattern("Item 10: Directors & Officers", {"ITEM 10 DIRECTORS, EXECUTIVE OFFICERS"}),
       Pattern("Directors & Officers", {"BOARD OF DIRECTORS", "DIRECTORS AND EXECUTIVE OFFICERS"}),
       Pattern("Executive Officers", {"EXECUTIVE OFFICER", "MANAGEMENT TEAM"}),
       Pattern("Biographies", {"BIOGRAPHICAL INFORMATION", "BIOGRAPHICA INFORMATION", "BIOGRAPHIES"}),
       Pattern("Election of Directors", {"PROPOSAL 1 ELECTION OF DIRECTORS"}),
       Pattern("Director Nominees", {"NOMINEES FOR DIRECTOR", "DIRECTOR NOMINEES"}),
       Pattern("Continuing Directors", {"CONTINUING DIRECTORS"}),
       Pattern("Management", {"MANAGEMENT DISCUSSION", "MANAGEMENT TEAM"}) >>

\* ' '.join(headers)
RECURSIVE join(_)
join(headers) ==
    IF headers = <<>> THEN <<>>
    ELSE IF Len(headers) = 1 THEN Head(headers)
    ELSE Head(headers) \o <<" ">> \o join(Tail(headers))

header_keywords ==
    { <<"n","a","m","e">>, <<"a","g","e">>, <<"d","i","r","e","c","t","o","r">>,
      <<"o","f","f","i","c","e","r">>, <<"p","o","s","i","t","i","o","n">>,
      <<"b","a","c","k","g","r","o","u","n","d">> }

\* The tables with a header row and at least one data row, in document order.
extract_tables_from_html(html_content) ==
    SelectSeq(html_content, LAMBDA p : p.headers # <<>> /\ p.rows > 0)

\* The sections made of the tables whose headers suggest biographies.
RECURSIVE table_sections(_)
table_sections(tables) ==
    IF tables = <<>> THEN <<>>
    ELSE (IF \E keyword \in header_keywords : In(keyword, Lower(join(Head(tables).headers)))
          THEN << [section_name |-> "Biographical Table", start_position |-> -1,
                   end |-> -1, length |-> Head(tables).len] >>
          ELSE <<>>) \o table_sections(Tail(tables))

find_biographical_sections_enhanced(html_content, include_tables) ==
    LET sections == sections_loop(html_content, bio_patterns_enhanced, 30000, {"Item", "PROPOSAL"})
        tables == IF include_tables THEN table_sections(extract_tables_from_html(html_content))
                  ELSE <<>>
    IN  unique(sorted(sections \o tables), {})

MaxPieces == 3

Pieces ==
    { Biographies, DirectorsAndOfficers, ManagementTeamHeading, ItemLine, ProposalLine,
      Prose(150), Prose(300), Prose(40000), Blanks(60), Table(NameAge), Table(TickerPrice) }

\* The non-empty documents of at most MaxPieces pieces.
HtmlContents == UNION { [1..n -> Pieces] : n \in 1..MaxPieces }

InitLocator ==
    /\ db = EmptyDb
    /\ prev = EmptyDb
    /\ nops = 0
    /\ InitEnv
    /\ \E html_content \in HtmlContents :
          last = [op |-> "input", html_content |-> html_content, ret |-> NULL]

FindBiographicalSections ==
    /\ last.op = "input"
    /\ last' = [op |-> "find_biographical_sections", html_content |-> last.html_content,
                ret |-> find_biographical_sections(last.html_content)]
    /\ nops' = nops + 1
    /\ UNCHANGED <<db, prev, cache, now, written, run>>

FindBiographicalSectionsEnhanced ==
    /\ last.op = "input"
    /\ \E include_tables \in BOOLEAN :
          last' = [op |-> "find_biographical_sections_enhanced",
                   html_content |-> last.html_content,
                   ret |-> find_biographical_sections_enhanced(last.html_content, include_tables)]
    /\ nops' = nops + 1
    /\ UNCHANGED <<db, prev, cache, now, written, run>>

NextLocator == FindBiographicalSections \/ FindBiographicalSectionsEnhanced

SpecLocator == InitLocator /\ [][NextLocator]_vars

Located == last.op \in {"find_biographical_sections", "find_biographical_sections_enhanced"}

\* The sections of a result that come from a heading window.
HeadingSections(ret) ==
    SelectSeq(ret, LAMBDA s : s.section_name \notin {"Biographical Table", "fallback-paragraph"})

\* C21: the section locator never returns an empty list for a non-empty
\* document: when no heading yields a surviving window the result holds
\* exactly one section labelled fallback-paragraph.
C21_NeverEmpty ==
    Located /\ TextLen(last.html_content) > 0 =>
        /\ last.ret # <<>>
        /\ (HeadingSections(last.ret) = <<>> =>
               Len(SelectSeq(last.ret, LAMBDA s : s.section_name = "fallback-paragraph")) = 1)


----------------------------------------------------------------------------
(* clean_relationship on its own, and the relationships the roster stores *)

UpperChar(c) ==
    CASE c = "a" -> "A" [] c = "b" -> "B" [] c = "c" -> "C" [] c = "d" -> "D"
      [] c = "e" -> "E" [] c = "f" -> "F" [] c = "g" -> "G" [] c = "h" -> "H"
      [] c = "i" -> "I" [] c = "j" -> "J" [] c = "k" -> "K" [] c = "l" -> "L"
      [] c = "m" -> "M" [] c = "n" -> "N" [] c = "o" -> "O" [] c = "p" -> "P"
      [] c = "q" -> "Q" [] c = "r" -> "R" [] c = "s" -> "S" [] c = "t" -> "T"
      [] c = "u" -> "U" [] c = "v" -> "V" [] c = "w" -> "W" [] c = "x" -> "X"
      [] c = "y" -> "Y" [] c = "z" -> "Z" [] OTHER -> c

\* The spellings of a word in upper case, capitalised, and with every second
\* letter in upper case.
Upper(s) == [i \in 1..Len(s) |-> UpperChar(s[i])]
Capitalised(s) == [i \in 1..Len(s) |-> IF i = 1 THEN UpperChar(s[i]) ELSE s[i]]
Alternating(s) == [i \in 1..Len(s) |-> IF i % 2 = 0 THEN UpperChar(s[i]) ELSE s[i]]

Alumni == <<"a","l","u","m","n","i">>
Alumnus == <<"a","l","u","m","n","u","s">>
Student == <<"s","t","u","d","e","n","t">>

\* Words that are not relationships: two unrelated words, and two that
\* contain an accepted word.
OtherWords ==
    { <<"o","t","h","e","r">>, <<"u","n","k","n","o","w","n">>,
      <<"s","t","u","d","e","n","t","s">>, <<" ","d","o","n","o","r">> }

\* The values clean_relationship is given: each word in four spellings, the
\* empty string and None.
Relationships ==
    { NULL, Some(<<>>) } \cup
    UNION { { Some(w), Some(Capitalised(w)), Some(Upper(w)), Some(Alternating(w)) } :
              w \in accepted \cup { Alumni, Alumnus } \cup OtherWords }

\* The relationships of the claims stored in the roster.
StoredRelationships ==
    { NULL, Some(<<>>), Some(Upper(Alumni)), Some(Capitalised(<<"d","o","n","o","r">>)),
      Some(<<"o","t","h","e","r">>), Some(<<" ","d","o","n","o","r">>) }

MaxRelOps == 2

InitRelationship ==
    /\ db = EmptyDb
    /\ prev = EmptyDb
    /\ nops = 0
    /\ InitEnv
    /\ \E relationship \in Relationships :
          last = [op |-> "input", relationship |-> relationship, ret |-> NULL]

CleanRelationship ==
    /\ last.op = "input"
    /\ last' = [op |-> "clean_relationship", relationship |-> last.relationship,
                ret |-> clean_relationship(last.relationship)]
    /\ nops' = nops + 1
    /\ UNCHANGED <<db, prev, cache, now, written, run>>

RelationshipClaims ==
    [ name : {Some(JohnSmith)}, year_of_birth : {NULL, Some(1990), Some(1993)},
      relationship : StoredRelationships ]

InsertAlumniRelationship ==
    /\ nops < MaxRelOps
    /\ last.op # "clean_relationship"
    /\ \E c \in RelationshipClaims :
          BoundedCall(MaxRelOps, [op |-> "insert_alumni", claim |-> c, ret |-> NULL],
                      insert_alumni(db, c))

UpdateAlumniRelationship ==
    /\ nops < MaxRelOps
    /\ \E id \in AlumniIds, c \in RelationshipClaims :
          BoundedCall(MaxRelOps, [op |-> "update_alumni", id |-> id, claim |-> c, ret |-> NULL],
                      update_alumni(db, id, c))

NextRelationship ==
    CleanRelationship \/ InsertAlumniRelationship \/ UpdateAlumniRelationship

SpecRelationship == InitRelationship /\ [][NextRelationship]_vars

\* Two strings are the same up to the case of their letters.
SameWord(s, t) == Upper(s) = Upper(t)

\* C22: clean_relationship maps each accepted value, in any case, to its
\* lower-case form, alumni and alumnus to student, and everything else,
\* None included, to None; every relationship stored by insert_alumni and
\* update_alumni is None or an accepted value.
C22_CleanRelationship ==
    /\ last.op = "clean_relationship" =>
          LET r == last.relationship
          IN  IF r # NULL /\ \E a \in accepted : SameWord(Val(r), a)
              THEN last.ret # NULL /\ Val(last.ret) \in accepted
                     /\ SameWord(Val(last.ret), Val(r))
              ELSE IF r # NULL /\ (SameWord(Val(r), Alumni) \/ SameWord(Val(r), Alumnus))
                   THEN last.ret = Some(Student)
                   ELSE last.ret = NULL
    /\ \A i \in 1..Len(db.alumni) :
          \/ db.alumni[i].relationship_to_bu = NULL
          \/ Val(db.alumni[i].relationship_to_bu) \in accepted

\* An accepted value in mixed case has been cleaned, and so has another word.
C22_Witness ==
    /\ last.op = "clean_relationship"
    /\ last.relationship = Some(Alternating(<<"d","o","n","o","r">>))
    /\ last.ret = Some(<<"d","o","n","o","r">>)

\* The roster holds a row stored from a claim that said ALUMNI.
C22_WitnessStored ==
    /\ last.op = "update_alumni"
    /\ last.claim.relationship = Some(Upper(Alumni))
    /\ \E i \in 1..Len(db.alumni) : db.alumni[i].relationship_to_bu = Some(Student)


----------------------------------------------------------------------------
(* Claims that name nobody *)

\* The last call handled a claim whose person name is "Unknown".
UnknownClaim ==
    /\ last.op = "process_person_matches"
    /\ last.person_matches[1].name = Unknown

\* C23: a claim named "Unknown" never matches a roster entry, also when an
\* earlier "Unknown" claim has stored a NameRecord with that full name:
\* alumni_match returns no ids, the claim creates a fresh AlumniRecord that
\* gets the NameRecord, and no AlumniRecord there was is modified.
C23_UnknownNeverMatches ==
    UnknownClaim =>
        /\ alumni_match(prev, Some(Unknown)) = {}
        /\ alumni_match(db, Some(Unknown)) = {}
        /\ Len(db.alumni) = Len(prev.alumni) + 1
        /\ db.alumni[Len(db.alumni)].year_of_birth = last.person_matches[1].year_of_birth
        /\ \A i \in 1..Len(prev.alumni) : db.alumni[i] = prev.alumni[i]
        /\ Len(db.names) = Len(prev.names) + 1
        /\ db.names[Len(db.names)] = [alumni_id |-> Len(db.alumni), full_name |-> Some(Unknown)]
        /\ \A i \in 1..Len(prev.names) : db.names[i] = prev.names[i]

\* A second "Unknown" claim, with no year of birth, came after a first one
\* had stored its NameRecord.
C23_Witness ==
    /\ UnknownClaim
    /\ last.person_matches[1].year_of_birth = NULL
    /\ \E i \in 1..Len(prev.names) : prev.names[i].full_name = Some(Unknown)
    /\ Len(db.alumni) = 2


----------------------------------------------------------------------------
(* Pattern-based extractor: src/sec_filings/affiliation_search.py *)

\* A text as its pieces.  A piece is a run of characters, with the matches
\* of the university patterns in it (pattern number, offset and length), or
\* a stretch of `len` characters that hold no letter of any keyword.
Run(chars, mentions) == [chars |-> chars, len |-> Len(chars), mentions |-> mentions]
Stretch(len) == [chars |-> <<"~">>, len |-> len, mentions |-> {}]

\* "Boston University", matched by the first of BU_PATTERNS.
BostonUniversity ==
    Run(<<"B","o","s","t","o","n"," ","U","n","i","v","e","r","s","i","t","y">>,
        { [pattern |-> 1, offset |-> 0, len |-> 17] })

\* " BU ", matched by the third of BU_PATTERNS.
BU == Run(<<" ","B","U"," ">>, { [pattern |-> 3, offset |-> 0, len |-> 4] })

HoldsMBA == Run(<<" ","h","o","l","d","s"," ","a","n"," ","M",".","B",".","A","."," ">>, {})
AsProfessor == Run(<<" ","P","r","o","f","e","s","s","o","r"," ","o","f"," ">>, {})
Attended == Run(<<" ","a","t","t","e","n","d","e","d"," ">>, {})
Joined == Run(<<" ","j","o","i","n","e","d"," ">>, {})
Chairman == Run(<<" ","c","h","a","i","r","m","a","n"," ">>, {})

\* len(text)
RECURSIVE TextLength(_)
TextLength(text) == IF text = <<>> THEN 0 ELSE Head(text).len + TextLength(Tail(text))

\* text[start:end], a stretch cut to one character.
RECURSIVE TextSlice(_, _, _)
TextSlice(text, start, end) ==
    IF text = <<>> \/ end <= 0 THEN <<>>
    ELSE LET p == Head(text)
             from == IF start < 0 THEN 0 ELSE start
             to == IF end > p.len THEN p.len ELSE end
             part == IF from >= to THEN <<>>
                     ELSE IF p.mentions = {} /\ p.chars = <<"~">> /\ p.len # 1 THEN <<"~">>
                     ELSE SubSeq(p.chars, from + 1, to)
         IN  part \o TextSlice(Tail(text), start - p.len, end - p.len)

\* DEGREE_PATTERNS searched without regard to case: the shortest strings
\* the expression matches, in lower case.
DEGREE_PATTERNS ==
    { <<"b","a">>, <<"b",".","a">>, <<"b","a","c","h","e","l","o","r">>,
      <<"b","s">>, <<"b",".","s">>, <<"m","a","s","t","e","r">>,
      <<"m","a">>, <<"m",".","a">>,
      <<"m","b","a">>, <<"m",".","b","a">>, <<"m","b",".","a">>, <<"m",".","b",".","a">>,
      <<"m","s">>, <<"m",".","s">>, <<"p","h","d">>, <<"p","h",".","d">>,
      <<"j","d">>, <<"j",".","d">>, <<"m","d">>, <<"m",".","d">>,
      <<"l","l","m">>, <<"l","l",".","m">>, <<"l","l","b">>, <<"l","l",".","b">>,
      <<"e","d","d">>, <<"e","d",".","d">> }

ROLE_PATTERNS ==
    { <<"p","r","o","f","e","s","s","o","r">>, <<"f","a","c","u","l","t","y">>,
      <<"i","n","s","t","r","u","c","t","o","r">>, <<"l","e","c","t","u","r","e","r">>,
      <<"r","e","s","e","a","r","c","h","e","r">>, <<"f","e","l","l","o","w">>,
      <<"t","r","u","s","t","e","e">>,
      <<"b","o","a","r","d"," ","m","e","m","b","e","r">>, <<"d","e","a","n">>,
      <<"c","h","a","i","r">>, <<"p","r","e","s","i","d","e","n","t">>,
      <<"c","h","a","n","c","e","l","l","o","r">>, <<"p","r","o","v","o","s","t">> }

education_keywords ==
    { <<"s","t","u","d","i","e","d">>, <<"a","t","t","e","n","d","e","d">>,
      <<"g","r","a","d","u","a","t","e","d">>, <<"a","l","u","m","n","u","s">>,
      <<"a","l","u","m","n","i">>, <<"e","d","u","c","a","t","e","d">> }

employment_keywords ==
    { <<"s","e","r","v","e","d">>, <<"w","o","r","k","e","d">>,
      <<"e","m","p","l","o","y","e","d">>, <<"a","p","p","o","i","n","t","e","d">>,
      <<"j","o","i","n","e","d">> }

\* Some string of `patterns` occurs in s.
AnyIn(patterns, s) ==
    \E p \in patterns : \E i \in 0..(Len(s) - Len(p)) : \A j \in 1..Len(p) : s[i + j] = p[j]

\* _classify_affiliation with the role test ahead of the degree test.
classify_affiliation_role_first(context) ==
    LET context_lower == Lower(context)
    IN  IF AnyIn(ROLE_PATTERNS, context_lower) THEN << "position", "high" >>
        ELSE IF AnyIn(DEGREE_PATTERNS, Lower(context)) THEN << "degree", "high" >>
        ELSE IF AnyIn(education_keywords, context_lower) THEN << "education", "medium" >>
        ELSE IF AnyIn(employment_keywords, context_lower) THEN << "employment", "medium" >>
        ELSE << "mention", "low" >>

\* _classify_affiliation: the type and the confidence of a context.
classify_affiliation(context) ==
    LET context_lower == Lower(context)
    IN  IF AnyIn(DEGREE_PATTERNS, Lower(context)) THEN << "degree", "high" >>
        ELSE IF AnyIn(ROLE_PATTERNS, context_lower) THEN << "position", "high" >>
        ELSE IF AnyIn(education_keywords, context_lower) THEN << "education", "medium" >>
        ELSE IF AnyIn(employment_keywords, context_lower) THEN << "employment", "medium" >>
        ELSE << "mention", "low" >>

\* The start and end of the matches of university pattern k in the text, in
\* text order: re.finditer(uni_pattern, text, re.IGNORECASE).
RECURSIVE uni_matches(_, _, _)
uni_matches(text, k, at) ==
    IF text = <<>> THEN <<>>
    ELSE LET here == { m \in Head(text).mentions : m.pattern = k }
             starts == Ascending({ m.offset : m \in here })
         IN  [i \in 1..Len(starts) |->
                 LET m == CHOOSE n \in here : n.offset = starts[i]
                 IN  [start |-> at + m.offset, end |-> at + m.offset + m.len]]
             \o uni_matches(Tail(text), k, at + Head(text).len)

\* The match built for one mention of the university.
affiliation_of(text, person_name, uni_match) ==
    LET start == IF uni_match.start - 1500 > 0 THEN uni_match.start - 1500 ELSE 0
        end == IF uni_match.end + 1500 < TextLength(text) THEN uni_match.end + 1500
               ELSE TextLength(text)
        context == TextSlice(text, start, end)
        classified == classify_affiliation(context)
    IN  IF classified[1] # ""
        THEN << [ person_name |-> IF person_name = NULL \/ person_name = Some(<<>>)
                                  THEN <<"U","n","k","n","o","w","n">> ELSE Val(person_name),
                  affiliation_type |-> classified[1],
                  context |-> Strip(context),
                  confidence |-> classified[2] ] >>
        ELSE <<>>

\* The loop over the university patterns from pattern k on.
RECURSIVE patterns_loop(_, _, _)
patterns_loop(text, person_name, k) ==
    IF k > 4 THEN <<>>
    ELSE LET found == uni_matches(text, k, 0)
             RECURSIVE each(_)
             each(i) == IF i > Len(found) THEN <<>>
                        ELSE affiliation_of(text, person_name, found[i]) \o each(i + 1)
         IN  each(1) \o patterns_loop(text, person_name, k + 1)

find_affiliations_in_text(text, person_name) == patterns_loop(text, person_name, 1)

MaxTextPieces == 3

TextPieces ==
    { BostonUniversity, BU, HoldsMBA, AsProfessor, Attended, Joined, Chairman,
      Stretch(1495) }

BiographyTexts == UNION { [1..n -> TextPieces] : n \in 1..MaxTextPieces }

InitExtractor ==
    /\ db = EmptyDb
    /\ prev = EmptyDb
    /\ nops = 0
    /\ InitEnv
    /\ \E text \in BiographyTexts, person_name \in { NULL, Some(<<"J","o">>) } :
          last = [op |-> "input", text |-> text, person_name |-> person_name, ret |-> NULL]

FindAffiliationsInText ==
    /\ last.op = "input"
    /\ last' = [last EXCEPT !.op = "find_affiliations_in_text",
                            !.ret = find_affiliations_in_text(last.text, last.person_name)]
    /\ nops' = nops + 1
    /\ UNCHANGED <<db, prev, cache, now, written, run>>

NextExtractor == FindAffiliationsInText

SpecExtractor == InitExtractor /\ [][NextExtractor]_vars

\* The number of mentions of the university in a text.
RECURSIVE Occurrences(_)
Occurrences(text) ==
    IF text = <<>> THEN 0 ELSE Cardinality(Head(text).mentions) + Occurrences(Tail(text))

\* The signals of an evidence context.
HasDegree(context) == AnyIn(DEGREE_PATTERNS, Lower(context))
HasRole(context) == AnyIn(ROLE_PATTERNS, Lower(context))
HasEducationVerb(context) == AnyIn(education_keywords, Lower(context))
HasEmploymentVerb(context) == AnyIn(employment_keywords, Lower(context))

----------------------------------------------------------------------------
(* Responses of the extraction service: fences and json.loads *)

\* The backquote character, and the fence of three of them.
Backquote == "BACKQUOTE"
Fence == << Backquote, Backquote, Backquote >>
JsonFence == Fence \o << "j", "s", "o", "n" >>

\* s.startswith(prefix)
StartsWith(s, prefix) == Len(s) >= Len(prefix) /\ SubSeq(s, 1, Len(prefix)) = prefix

\* The indices from index from on at which sub begins in s.
FindFrom(s, sub, from) ==
    { i \in from..(Len(s) - Len(sub) + 1) : SubSeq(s, i, i + Len(sub) - 1) = sub }

\* re.sub of the fence pattern by its group, with re.DOTALL: every span from
\* an opening fence with the json tag to the nearest fence after it is
\* replaced by what lies between them.
RECURSIVE sub_jsonmarkdown(_)
sub_jsonmarkdown(text) ==
    IF text = <<>> THEN <<>>
    ELSE LET closing == FindFrom(text, Fence, Len(JsonFence) + 1)
         IN  IF StartsWith(text, JsonFence) /\ closing # {}
             THEN SubSeq(text, Len(JsonFence) + 1, Least(closing) - 1)
                     \o sub_jsonmarkdown(SubSeq(text, Least(closing) + Len(Fence), Len(text)))
             ELSE << Head(text) >> \o sub_jsonmarkdown(Tail(text))

\* remove_jsonmarkdown: the substitution, then str.strip().
remove_jsonmarkdown(text) == Strip(sub_jsonmarkdown(text))

\* The tokens of a JSON text: punctuation and strings; a character that
\* begins no token, or a string left open, gives an error token.
Punctuation == { "[", "]", "{", "}", ",", ":" }
ErrorToken == [t |-> "error", v |-> <<>>]

RECURSIVE Tokens(_)
Tokens(s) ==
    IF s = <<>> THEN <<>>
    ELSE IF Head(s) \in Whitespace THEN Tokens(Tail(s))
    ELSE IF Head(s) \in Punctuation THEN << [t |-> Head(s), v |-> <<>>] >> \o Tokens(Tail(s))
    ELSE IF Head(s) = "\""
         THEN LET closing == { i \in 2..Len(s) : s[i] = "\"" }
              IN  IF closing = {} \/ \E i \in 2..(Least(closing) - 1) : s[i] \in {"\n", "\r", "\t"}
                  THEN << ErrorToken >>
                  ELSE << [t |-> "str", v |-> SubSeq(s, 2, Least(closing) - 1)] >>
                          \o Tokens(SubSeq(s, Least(closing) + 1, Len(s)))
    ELSE << ErrorToken >>

\* The members of an object, from the tokens between its braces.
RECURSIVE Members(_)
Members(toks) ==
    IF Len(toks) >= 3 /\ toks[1].t = "str" /\ toks[2].t = ":" /\ toks[3].t = "str"
    THEN IF Len(toks) = 3 THEN Json(<< << toks[1].v, toks[3].v >> >>)
         ELSE IF toks[4].t = ","
              THEN LET rest == Members(SubSeq(toks, 5, Len(toks)))
                   IN  IF rest.ok THEN Json(<< << toks[1].v, toks[3].v >> >> \o rest.list)
                       ELSE Malformed
              ELSE Malformed
    ELSE Malformed

\* The elements of an array, from the tokens between its brackets.
RECURSIVE Elements(_)
Elements(toks) ==
    IF toks = <<>> THEN Malformed
    ELSE IF toks[1].t = "{"
         THEN LET closing == { i \in 2..Len(toks) : toks[i].t = "}" }
              IN  IF closing = {} THEN Malformed
                  ELSE LET j == Least(closing)
                           object == IF j = 2 THEN Json(<<>>) ELSE Members(SubSeq(toks, 2, j - 1))
                           rest == SubSeq(toks, j + 1, Len(toks))
                       IN  IF ~object.ok THEN Malformed
                           ELSE IF rest = <<>> THEN Json(<< object.list >>)
                           ELSE IF rest[1].t = ","
                                THEN LET more == Elements(Tail(rest))
                                     IN  IF more.ok THEN Json(<< object.list >> \o more.list)
                                         ELSE Malformed
                                ELSE Malformed
         ELSE Malformed

\* json.loads of a text that is to hold an array of objects with string
\* members: the list, or a JSONDecodeError.
loads(s) ==
    LET toks == Tokens(s)
    IN  IF Len(toks) >= 2 /\ toks[1].t = "[" /\ toks[Len(toks)].t = "]"
        THEN IF Len(toks) = 2 THEN Json(<<>>) ELSE Elements(SubSeq(toks, 2, Len(toks) - 1))
        ELSE Malformed

\* json.dumps of a list of objects with one member each, compact or with a
\* blank after each separator and a newline inside the brackets.
Quoted(s) == << "\"" >> \o s \o << "\"" >>

RECURSIVE dumps_objects(_, _)
dumps_objects(list, spaced) ==
    IF list = <<>> THEN <<>>
    ELSE << "{" >> \o Quoted(Head(list)[1][1]) \o << ":" >>
            \o (IF spaced THEN << " " >> ELSE <<>>) \o Quoted(Head(list)[1][2]) \o << "}" >>
            \o (IF Len(list) = 1 THEN <<>>
                ELSE << "," >> \o (IF spaced THEN << " " >> ELSE <<>>)
                        \o dumps_objects(Tail(list), spaced))

dumps(list, spaced) ==
    << "[" >> \o (IF spaced THEN << "\n" >> ELSE <<>>) \o dumps_objects(list, spaced)
              \o (IF spaced THEN << "\n" >> ELSE <<>>) \o << "]" >>

MaxObjects == 2

\* The values of the members: a name, and two that hold fence markers.
MemberValues == { << "J", "o" >>, Fence, JsonFence }

JsonObjects == { << << << "n" >>, v >> >> : v \in MemberValues }

JsonLists == UNION { [1..n -> JsonObjects] : n \in 0..MaxObjects }

\* The response of the service around a JSON text.
Wrappings == { "none", "padded", "json", "json inline", "bare", "bare inline" }

Response(text, wrapping) ==
    CASE wrapping = "none" -> text
      [] wrapping = "padded" -> << " ", "\n" >> \o text \o << "\n" >>
      [] wrapping = "json" -> JsonFence \o << "\n" >> \o text \o << "\n" >> \o Fence
      [] wrapping = "json inline" -> JsonFence \o text \o Fence
      [] wrapping = "bare" -> Fence \o << "\n" >> \o text \o << "\n" >> \o Fence
      [] wrapping = "bare inline" -> Fence \o text \o Fence

InitResponse ==
    /\ db = EmptyDb
    /\ prev = EmptyDb
    /\ nops = 0
    /\ InitEnv
    /\ \E list \in JsonLists, spaced \in BOOLEAN, wrapping \in Wrappings :
          last = [op |-> "input", text |-> dumps(list, spaced), wrapping |-> wrapping,
                  response |-> Response(dumps(list, spaced), wrapping),
                  cleaned |-> <<>>, ret |-> NULL]

\* cleaned = remove_jsonmarkdown(response); json.loads(cleaned)
RemoveJsonmarkdown ==
    /\ last.op = "input"
    /\ last' = [last EXCEPT !.op = "remove_jsonmarkdown",
                            !.cleaned = remove_jsonmarkdown(last.response),
                            !.ret = loads(remove_jsonmarkdown(last.response))]
    /\ nops' = nops + 1
    /\ UNCHANGED <<db, prev, cache, now, written, run>>

NextResponse == RemoveJsonmarkdown

SpecResponse == InitResponse /\ [][NextResponse]_vars

Cleaned == last.op = "remove_jsonmarkdown"

\* C25 as stated: for every valid JSON array text, the text wrapped in
\* fences, with or without a language tag, parses to the list the bare text
\* parses to, and an unfenced response is left unchanged apart from trimming.
C25_FencesStripped ==
    Cleaned /\ loads(last.text).ok =>
        /\ last.wrapping \in {"json", "json inline", "bare", "bare inline"}
              => last.ret = loads(last.text)
        /\ last.wrapping \in {"none", "padded"} => last.cleaned = Strip(last.response)


----------------------------------------------------------------------------
(* The records a branching claim leaves *)

\* The dependent records of alumnus a, table by table.
RecordsOf(d, a) ==
    [ names      |-> SelectSeq(d.names, LAMBDA r : r.alumni_id = a),
      degrees    |-> SelectSeq(d.degrees, LAMBDA r : r.alumni_id = a),
      employment |-> SelectSeq(d.employment, LAMBDA r : r.alumni_id = a),
      filings    |-> SelectSeq(d.filings, LAMBDA r : r.alumni_id = a) ]

\* The last call handled a claim whose name matched and that branched on a
\* conflict of birth years: the roster grew by one record.
BranchedClaim ==
    /\ last.op = "process_person_matches"
    /\ alumni_match(prev, Some(last.person_matches[1].name)) # {}
    /\ Len(db.alumni) = Len(prev.alumni) + 1

\* C26: when a claim branches on a birth-year conflict, the NameRecord,
\* DegreeRecords, EmploymentRecords and FilingLink derived from the claim are
\* attached to the new AlumniRecord, and the dependent records of every
\* AlumniRecord there was are as they were.
C26_BranchOwnsItsRecords ==
    BranchedClaim =>
        LET new_id == Len(db.alumni)
            claim == last.person_matches[1]
        IN  /\ \E i \in 1..Len(db.names) :
                  db.names[i] = [alumni_id |-> new_id, full_name |-> Some(claim.name)]
            /\ \E i \in 1..Len(db.filings) :
                  db.filings[i].alumni_id = new_id /\ db.filings[i].link = last.file_link
            /\ Len(RecordsOf(db, new_id).degrees) = Len(claim.degree_list)
            /\ Len(RecordsOf(db, new_id).employment) = Len(claim.employment_list)
            /\ \A a \in 1..Len(prev.alumni) : RecordsOf(db, a) = RecordsOf(prev, a)


----------------------------------------------------------------------------
(* Re-processing a claim *)

MaxReprocess == 3

\* The claims about one name that carry no employment and no degree.
ReprocessClaims ==
    { p \in PersonsDicts : p.name = JohnSmith /\ p.employment_list = <<>> /\ p.degree_list = <<>> }

InitReprocess ==
    /\ db = EmptyDb
    /\ prev = EmptyDb
    /\ last = [op |-> "init", person_matches |-> <<>>, file_link |-> "", earlier |-> <<>>,
               ret |-> NULL]
    /\ nops = 0
    /\ InitEnv

\* process_person_matches on one claim, with the claims handled before it
\* kept in `earlier`.
Reprocess ==
    /\ nops < MaxReprocess
    /\ \E p \in ReprocessClaims, link \in Links :
        \E d \in process_person_matches({db}, <<p>>, Filing(link).company_name,
                                        Filing(link).company_cik,
                                        Filing(link).filing_date, link) :
            BoundedCall(MaxReprocess,
                        [op |-> "process_person_matches", person_matches |-> <<p>>,
                         file_link |-> link, earlier |-> last.earlier \o last.person_matches,
                         ret |-> NULL],
                        Out(d, NULL))

NextReprocess == Reprocess

SpecReprocess == InitReprocess /\ [][NextReprocess]_vars

\* The years of birth of the claims handled so far.
YearsSeen ==
    { p.year_of_birth : p \in Range(last.earlier \o last.person_matches) } \ { NULL }

\* C27: processing a claim with the name, year of birth and relationship of
\* a claim processed before creates no AlumniRecord, also when its year of
\* birth conflicts with the first record of the name; and the roster holds
\* no more records of a name than distinct years of birth were seen.
C27_ReprocessingIdempotent ==
    last.op = "process_person_matches" =>
        /\ last.person_matches[1] \in Range(last.earlier) => Len(db.alumni) = Len(prev.alumni)
        /\ Len(db.alumni) <= IF YearsSeen = {} THEN 1 ELSE Cardinality(YearsSeen)


----------------------------------------------------------------------------
(* The FilingLink of a handled claim *)

\* The ids the claim of the last call may have resolved to: a record its
\* name matched, or a record the call created.
ResolvedIds ==
    alumni_match(prev, Some(last.person_matches[1].name))
        \cup ((Len(prev.alumni) + 1)..Len(db.alumni))

\* C28: after process_person_matches has handled a claim taken from a
\* document, a FilingLink of the claim's alumnus and that document holds the
\* claim's extracted text, whether the person is new to the roster or is in
\* the roster and was not seen in this document before.
C28_FilingLinkExists ==
    last.op = "process_person_matches" =>
        \E i \in 1..Len(db.filings) :
            /\ db.filings[i].alumni_id \in ResolvedIds
            /\ db.filings[i].link = last.file_link
            /\ In(last.person_matches[1].matching_text, db.filings[i].text_extracted)


----------------------------------------------------------------------------
(* update_degree applied again *)

\* C29: update_degree is idempotent: whatever DegreeRecords the alumnus owns
\* and whatever the claim, a null degree type included, applying the claim
\* again leaves the DegreeRecords the first application left; on first
\* degree evidence exactly one DegreeRecord is inserted.
C29_UpdateDegreeIdempotent ==
    last.op = "update_degree" =>
        /\ \A first \in Picks(degree_id_query(db, last.id, last.degree_dict.degree_type)) :
              update_degree(db, last.id, last.degree_dict, first).db.degrees = db.degrees
        /\ degrees_of(prev, last.id) = {} => Cardinality(degrees_of(db, last.id)) = 1


----------------------------------------------------------------------------
(* SECClient.download_filing: src/sec_filings/client.py *)

\* What the server holds for a filing when it is asked: no index page, an
\* index page that lists no document, or a document with its text.
ServerAnswers ==
    { [kind |-> "no index", text |-> <<>>], [kind |-> "no document", text |-> <<>>] }
        \cup { [kind |-> "document", text |-> t] : t \in { <<>>, <<"a">>, <<"b","b">> } }

\* Python's truth value of a str or None.
TruthyStr(x) == x # NULL /\ Val(x) # <<>>

\* The outcome of a download: the cache it leaves, the value returned or
\* the exception raised, and the requests sent to the server.
Downloaded(c, ret, raised, requests) ==
    [cache |-> c, ret |-> ret, raised |-> raised, requests |-> requests]

\* The requests and the rest of download_filing after the cache was tried,
\* with the cache as c.
fetch(use_cache, c, accession_number, save_path, current_time, answer) ==
    IF answer.kind # "document" THEN Downloaded(c, NULL, "FilingNotFoundError", 1)
    ELSE IF TruthyStr(save_path) THEN Downloaded(c, save_path, "", 2)
    ELSE IF use_cache
         THEN Downloaded(set(c, accession_number, answer.text, current_time).cache,
                         Some(answer.text), "", 2)
         ELSE Downloaded(c, Some(answer.text), "", 2)

\* download_filing: the cached content when caching is on, no save path is
\* given and the cache returns a content that is truthy; otherwise the
\* document from the server, saved to the path or stored in the cache.
download_filing(use_cache, c, accession_number, save_path, current_time, answer) ==
    IF use_cache /\ ~TruthyStr(save_path)
    THEN LET cached_content == get(c, accession_number, current_time)
         IN  IF TruthyStr(cached_content.ret)
             THEN Downloaded(cached_content.cache, cached_content.ret, "", 0)
             ELSE fetch(use_cache, cached_content.cache, accession_number, save_path,
                        current_time, answer)
    ELSE fetch(use_cache, c, accession_number, save_path, current_time, answer)

MaxDownloads == 3

SavePaths == { NULL, Some(<<"o","u","t">>) }

InitDownload ==
    /\ db = EmptyDb
    /\ prev = EmptyDb
    /\ nops = 0
    /\ InitEnv
    /\ \E use_cache \in BOOLEAN :
          last = [op |-> "init", use_cache |-> use_cache, id |-> "", save_path |-> NULL,
                  ret |-> NULL, raised |-> "", requests |-> 0, before |-> {}, had |-> NULL,
                  at |-> 0]

\* One call of download_filing; `written` keeps, for each filing, the text
\* a call without save path last downloaded and stored, and when.
DownloadFiling ==
    /\ nops < MaxDownloads
    /\ \E id \in CacheIds, save_path \in SavePaths, answer \in ServerAnswers :
          LET out == download_filing(last.use_cache, cache, id, save_path, now, answer)
          IN  /\ cache' = out.cache
              /\ last' = [op |-> "download_filing", use_cache |-> last.use_cache, id |-> id,
                          save_path |-> save_path, ret |-> out.ret, raised |-> out.raised,
                          requests |-> out.requests, before |-> cache, had |-> written[id],
                          at |-> now]
              /\ written' = IF last.use_cache /\ save_path = NULL /\ out.requests = 2
                            THEN [written EXCEPT ![id] = Some([content |-> Val(out.ret),
                                                                at |-> now])]
                            ELSE written
    /\ nops' = nops + 1
    /\ UNCHANGED <<db, prev, now, run>>

NextDownload == DownloadFiling \/ Tick

SpecDownload == InitDownload /\ [][NextDownload]_vars

\* The last call was download_filing with caching enabled.
Download == last.op = "download_filing" /\ last.use_cache

\* The call came after a download of the same filing had succeeded and
\* before the time-to-live of what it stored had elapsed.
WithinTtl == last.had # NULL /\ last.at - Val(last.had).at < ttl_seconds

\* C30: with caching enabled and no save path, once download_filing(id) has
\* succeeded every later download_filing(id) within the time-to-live
\* returns the same content and sends no request, whatever the content, the
\* empty text included; a call with a save path neither reads nor writes
\* the cache.
C30_CachedWithinTtl ==
    Download =>
        /\ last.save_path = NULL /\ WithinTtl
              => last.requests = 0 /\ last.ret = Some(Val(last.had).content)
        /\ last.save_path # NULL
              => cache = last.before /\ last.requests > 0
                   /\ (last.raised = "" => last.ret = last.save_path)

====
